---- MODULE Spec2Model ----
(***************************************************************************)
(* Model of the text-preparation and LLM-request pipeline of               *)
(* gutenberg-explorer: the rate limit gate (lib/rateLimitManager.ts), the  *)
(* request executor (lib/groqService.ts), the analyze-all driver of the    *)
(* TextAnalysis component, the chapter segmenter (lib/chapterUtils.ts) and *)
(* the book cache store (lib/bookCacheStore.ts).                           *)
(* Times are milliseconds, as returned by Date.now().                      *)
(***************************************************************************)
EXTENDS Integers, Sequences, FiniteSets, TLC

VARIABLES
    now,                \* Date.now()
    apiCalls,           \* RateLimitManager.apiCalls
    maxCallsPerMinute,  \* RateLimitManager.maxCallsPerMinute
    maxCallsPerHour,    \* RateLimitManager.maxCallsPerHour
    maxCallsPerDay,     \* RateLimitManager.maxCallsPerDay
    numberOfRetries,    \* RateLimitManager.numberOfRetries
    ret,                \* value returned by the last RateLimitManager method call
    tasks,              \* the analyzeWithGroq / withRateLimit invocations
    ticks,              \* number of clock advances so far (bounds the run)
    isLoading,          \* TextAnalysis: isLoading
    apiKey,             \* TextAnalysis: apiKey (Null when absent)
    pendingAction,      \* TextAnalysis: pendingAction
    showApiKeyModal,    \* TextAnalysis: showApiKeyModal
    activeAnalysis,     \* TextAnalysis: activeAnalysis
    analysisData,       \* TextAnalysis: analysisData, chapter -> kinds with a result
    cachedAnalyses,     \* book cache store: cachedAnalyses of this book
    display,            \* TextAnalysis: error, analysisProgress, activeChapter
    run,                \* the analyzeAllChapters invocation in progress
    single,             \* the performAnalysis invocation started for one chapter
    issued,             \* chapters requested by the analyzeAllChapters run, in order
    detect,             \* the performLanguageDetection invocation and the language cache
    clicks,             \* number of user interactions so far (bounds the run)
    text,               \* splitBookIntoChapters: the book text, one character per element
    chapters,           \* splitBookIntoChapters: the chapters returned (NotSplit before)
    prep,               \* the last text-preparation call: its arguments and its result
    reply,              \* the last model response interpreted by analyzeWithGroq and its result
    store               \* book cache store: cachedBooks and recentBooks

driverVars == <<isLoading, apiKey, pendingAction, showApiKeyModal, activeAnalysis,
                analysisData, cachedAnalyses, display, run, single, issued, detect,
                clicks, text, chapters, prep, reply, store>>

vars == <<now, apiCalls, maxCallsPerMinute, maxCallsPerHour, maxCallsPerDay,
          numberOfRetries, ret, tasks, ticks, driverVars>>

gateVars == <<maxCallsPerMinute, maxCallsPerHour, maxCallsPerDay, numberOfRetries>>

----------------------------------------------------------------------------
(* Bounds of the model *)

NumTasks == 2
MaxAttempts == 7
MaxThrottled == 2
MaxCalls == 2
MaxTicks == 2
MaxGateTicks == 2
NumChapters == 3
MaxClicks == 3
MaxRetried == 3

(* Time windows of the gate *)

OneMinute == 60 * 1000
OneHour == 60 * 60 * 1000
OneDay == 24 * 60 * 60 * 1000
Buffer == 100

StartTime == 3 * OneDay

Tasks == 1 .. NumTasks
Endpoints == {"groq", "default"}

----------------------------------------------------------------------------
(* RateLimitManager: pure parts *)

Call(ts, e) == [timestamp |-> ts, endpoint |-> e]

cleanupOldCalls(calls, t) ==
    SelectSeq(calls, LAMBDA c : c.timestamp > t - OneDay)

\* the calls counted whatever their endpoint
callsSinceAnyEndpoint(calls, since, e) ==
    SelectSeq(calls, LAMBDA c : c.timestamp > since)

callsSince(calls, since, e) ==
    SelectSeq(calls, LAMBDA c : c.timestamp > since /\ c.endpoint = e)

\* ceilings compared with !== instead of <
canMakeCallNotEqual(calls, t, e) ==
    LET kept == cleanupOldCalls(calls, t)
    IN  /\ Len(callsSince(kept, t - OneMinute, e)) # maxCallsPerMinute
        /\ Len(callsSince(kept, t - OneHour, e)) # maxCallsPerHour
        /\ Len(callsSince(kept, t - OneDay, e)) # maxCallsPerDay

\* ceilings compared with <= instead of <
canMakeCallInclusive(calls, t, e) ==
    LET kept == cleanupOldCalls(calls, t)
    IN  /\ Len(callsSince(kept, t - OneMinute, e)) <= maxCallsPerMinute
        /\ Len(callsSince(kept, t - OneHour, e)) <= maxCallsPerHour
        /\ Len(callsSince(kept, t - OneDay, e)) <= maxCallsPerDay

canMakeCall(calls, t, e) ==
    LET kept == cleanupOldCalls(calls, t)
        callsLastMinute == Len(callsSince(kept, t - OneMinute, e))
        callsLastHour == Len(callsSince(kept, t - OneHour, e))
        callsLastDay == Len(callsSince(kept, t - OneDay, e))
    IN  /\ callsLastMinute < maxCallsPerMinute
        /\ callsLastHour < maxCallsPerHour
        /\ callsLastDay < maxCallsPerDay

RECURSIVE insertByTimestamp(_, _)
insertByTimestamp(c, sorted) ==
    IF sorted = <<>> THEN <<c>>
    ELSE IF c.timestamp < Head(sorted).timestamp THEN <<c>> \o sorted
    ELSE <<Head(sorted)>> \o insertByTimestamp(c, Tail(sorted))

RECURSIVE sortByTimestamp(_)
sortByTimestamp(calls) ==
    IF calls = <<>> THEN <<>>
    ELSE insertByTimestamp(calls[Len(calls)],
                           sortByTimestamp(SubSeq(calls, 1, Len(calls) - 1)))

\* the wait computed without the 100 ms buffer
getTimeToWaitNoBuffer(calls, t, e) ==
    IF canMakeCall(calls, t, e) THEN 0
    ELSE LET recentCalls == sortByTimestamp(callsSince(cleanupOldCalls(calls, t), t - OneMinute, e))
         IN  IF Len(recentCalls) >= maxCallsPerMinute
             THEN (recentCalls[1].timestamp + OneMinute) - t
             ELSE 0

getTimeToWait(calls, t, e) ==
    IF canMakeCall(calls, t, e) THEN 0
    ELSE LET kept == cleanupOldCalls(calls, t)
             recentCalls == sortByTimestamp(callsSince(kept, t - OneMinute, e))
         IN  IF Len(recentCalls) >= maxCallsPerMinute
             THEN (recentCalls[1].timestamp + OneMinute) - t + Buffer
             ELSE 0

Limit(used, max) == [used |-> used, max |-> max, remaining |-> max - used]

getLimitsInfo(calls, t, e) ==
    LET kept == cleanupOldCalls(calls, t)
    IN  [minuteLimit |-> Limit(Len(callsSince(kept, t - OneMinute, e)), maxCallsPerMinute),
         hourLimit |-> Limit(Len(callsSince(kept, t - OneHour, e)), maxCallsPerHour),
         dayLimit |-> Limit(Len(callsSince(kept, t - OneDay, e)), maxCallsPerDay)]

\* a call recorded twice
recordCallTwice(calls, t, e) == Append(Append(calls, Call(t, e)), Call(t, e))

recordCall(calls, t, e) == Append(calls, Call(t, e))

----------------------------------------------------------------------------
(* Errors and HTTP outcomes *)

Err(name, message, status, retryAfter, code) ==
    [name |-> name, message |-> message, status |-> status,
     retryAfter |-> retryAfter, code |-> code]

NoError == Err("none", "", 0, "", "")
Ok == Err("ok", "", 200, "", "")

\* an error thrown by axios.post: status 0 means the error has no response
AxiosError(status, retryAfter, code) ==
    Err("AxiosError", "Request failed", status, retryAfter, code)

NewError(message) == Err("Error", message, 0, "", "")
TypeError == Err("TypeError", "Cannot read properties of undefined", 0, "", "")

RetryAfterHeaders == {"", "2"}

AxiosOutcomes ==
    {Ok, AxiosError(401, "", "ERR_BAD_REQUEST"), AxiosError(500, "", "ERR_BAD_RESPONSE"),
     AxiosError(0, "", "ERR_NETWORK")}
    \cup {AxiosError(429, h, "ERR_BAD_REQUEST") : h \in RetryAfterHeaders}

InvalidKeyMessage == "Invalid API key. Please check your credentials and try again."
ApiErrorMessage == "API error: upstream message"
MaxRetriesMessage == "Maximum retries reached"
KeyRequiredMessage == "API key is required for text analysis"
UnsupportedMessage == "Unsupported analysis type"

\* parseInt(header || '5', 10)
parseRetryAfter(header) ==
    CASE header = "" -> 5
      [] header = "2" -> 2

\* every axios error rethrown as it is
groqApiCallUnmapped(outcome) == IF outcome.name = "ok" THEN Ok ELSE outcome

\* the apiCall closure of makeGroqRequest: what it throws for an axios outcome
groqApiCall(outcome) ==
    IF outcome.name = "ok" THEN Ok
    ELSE IF outcome.status # 0
         THEN IF outcome.status = 401 THEN NewError(InvalidKeyMessage)
              ELSE IF outcome.status = 429 THEN outcome
              ELSE NewError(ApiErrorMessage)
         ELSE outcome

----------------------------------------------------------------------------
(* Credentials and analysis kinds *)

AnalysisTypes == {"characters", "summary", "sentiment", "themes", "character-graph"}
RequestedTypes == {"summary", "themes", "language"}

Whitespace == {" ", "\t", "\n"}

RECURSIVE trimStart(_)
trimStart(s) ==
    IF s # <<>> /\ Head(s) \in Whitespace THEN trimStart(Tail(s)) ELSE s

RECURSIVE trimEnd(_)
trimEnd(s) ==
    IF s # <<>> /\ s[Len(s)] \in Whitespace
    THEN trimEnd(SubSeq(s, 1, Len(s) - 1)) ELSE s

\* the credential tested without trimming
trimNothing(s) == s

trim(s) == trimEnd(trimStart(s))

\* values of process.env.NEXT_PUBLIC_GROQ_API_KEY || ''
ApiKeys == {<<>>, <<" ", "\t">>, <<"g", "s", "k">>}

Delimiter == "\"\"\""

\* the prompt as the sequence of its parts; content stands for the compressed text
getAnalysisPrompt(content, analysisType) ==
    CASE analysisType = "characters" ->
            <<"Analyze the following text excerpt", Delimiter, content, Delimiter, "Format: JSON array">>
      [] analysisType = "summary" ->
            <<"Create a concise summary", Delimiter, content, Delimiter, "Format: paragraph">>
      [] analysisType = "sentiment" ->
            <<"Perform sentiment analysis", Delimiter, content, Delimiter, "Format: JSON object">>
      [] analysisType = "themes" ->
            <<"Identify the major themes", Delimiter, content, Delimiter, "Format: JSON array">>
      [] analysisType = "character-graph" ->
            <<"Extract Character Relationships for Visualization", content>>
      [] OTHER -> <<>>

----------------------------------------------------------------------------
(* withRateLimit *)

IdleTask ==
    [pc |-> "idle", endpoint |-> "groq", retry |-> 0, attempts |-> 0, wakeAt |-> 0,
     error |-> NoError, apiKey |-> <<>>, analysisType |-> "characters",
     waits |-> 0, recorded |-> 0, throttled |-> 0, admitted |-> TRUE,
     lastOutcome |-> NoError]

Reject(tk, e) == [tk EXCEPT !.pc = "rejected", !.error = e]

\* the awaited apiCall() is issued
IssueApiCall(tk) ==
    [tk EXCEPT !.pc = "calling", !.attempts = @ + 1,
               !.admitted = canMakeCall(apiCalls, now, tk.endpoint)]

\* withRateLimit calling apiCall without a look at the gate
withRateLimitUnchecked(tk, retry) ==
    IF retry > numberOfRetries THEN Reject([tk EXCEPT !.retry = retry], NewError(MaxRetriesMessage))
    ELSE IssueApiCall([tk EXCEPT !.retry = retry])

\* withRateLimit(apiCall, endpoint, retry) up to its first suspension
withRateLimit(tk, retry) ==
    LET timeToWait == getTimeToWait(apiCalls, now, tk.endpoint)
        entered == [tk EXCEPT !.retry = retry]
    IN  IF retry > numberOfRetries THEN Reject(entered, NewError(MaxRetriesMessage))
        ELSE IF timeToWait > 0
             THEN [entered EXCEPT !.pc = "waiting", !.wakeAt = now + timeToWait,
                                  !.waits = @ + 1]
             ELSE IssueApiCall(entered)

\* the value of the argument expression retry++
retryArgument(retry) == retry

\* the catch block of withRateLimit up to its suspension
catchError(tk, error) ==
    IF error.status = 429 \/ error.code = "rate_limit_exceeded"
    THEN IF error.status = 0
         THEN Reject(tk, TypeError)
         ELSE [tk EXCEPT !.pc = "backoff", !.throttled = @ + 1,
                         !.wakeAt = now + parseRetryAfter(error.retryAfter) * 1000]
    ELSE Reject(tk, error)

----------------------------------------------------------------------------
(* Construction *)

DefaultMaxCallsPerMinute == 5
DefaultMaxCallsPerHour == 30
DefaultMaxCallsPerDay == 100
DefaultNumberOfRetries == 5

\* n calls of endpoint e, gap apart, the last one at time last
StoredCalls(n, gap, last, e) == [i \in 1 .. n |-> Call(last - (n - i) * gap, e)]

\* contents of localStorage['api-rate-limits'] left by earlier sessions
StoredHistories ==
    {<<>>,
     StoredCalls(2, 1000, StartTime - 2 * OneDay, "groq"),
     StoredCalls(DefaultMaxCallsPerMinute - 1, 1000, StartTime - 1000, "groq"),
     StoredCalls(DefaultMaxCallsPerMinute, 1000, StartTime - 20000, "groq"),
     StoredCalls(DefaultMaxCallsPerHour, 100000, StartTime - 90000, "groq"),
     StoredCalls(DefaultMaxCallsPerDay, 800000, StartTime - 700000, "groq")}

loadFromStorage(stored, t) ==
    SelectSeq(stored, LAMBDA c : c.timestamp > t - OneDay)

NoReturn == [op |-> "none", endpoint |-> "", value |-> 0]

Null == <<>>
\* the key found in local storage at mount
StoredKey == <<"g", "s", "k">>
\* a key the dialog accepts: key.trim().length >= 8
SubmittedKey == <<"g", "s", "k", "_", "1", "2", "3", "4">>

Chapters == 0 .. NumChapters - 1
DriverTypes == {"characters", "summary"}

NoAction == [type |-> "none", chapterIndex |-> -1, analysisType |-> "none"]
NoRun == [pc |-> "idle", i |-> 0, apiKey |-> Null, analysisType |-> "none",
          analysisData |-> [c \in Chapters |-> {}], task |-> 0]
NoSingle == [pc |-> "idle", chapterIndex |-> 0, analysisType |-> "none", task |-> 0]
NoDisplay == [error |-> "none", analysisProgress |-> 0, activeChapter |-> 0]

\* the TextAnalysis component before it is mounted
NoDetect == [pc |-> "idle", task |-> 0, cached |-> FALSE]
NotSplit == <<[title |-> <<>>, content |-> <<>>, pending |-> TRUE]>>
NoPrep == [op |-> "none"]
NoReply == [analysisType |-> "none", response |-> <<>>, outcome |-> "none", value |-> <<>>]

\* the initial state of the book cache store
EmptyStore == [cachedBooks |-> <<>>, recentBooks |-> <<>>]

InitComponent ==
    /\ isLoading = FALSE
    /\ apiKey = Null
    /\ pendingAction = NoAction
    /\ showApiKeyModal = FALSE
    /\ activeAnalysis = "characters"
    /\ analysisData = [c \in Chapters |-> {}]
    /\ cachedAnalyses = [c \in Chapters |-> {}]
    /\ display = NoDisplay
    /\ run = NoRun
    /\ single = NoSingle
    /\ issued = <<>>
    /\ detect = NoDetect
    /\ clicks = 0
    /\ text = <<>>
    /\ chapters = NotSplit
    /\ prep = NoPrep
    /\ reply = NoReply
    /\ store = EmptyStore

InitCommon ==
    /\ now = StartTime
    /\ ret = NoReturn
    /\ tasks = [t \in Tasks |-> IdleTask]
    /\ ticks = 0

\* the singleton: new RateLimitManager()
Init ==
    /\ InitCommon
    /\ InitComponent
    /\ maxCallsPerMinute = DefaultMaxCallsPerMinute
    /\ maxCallsPerHour = DefaultMaxCallsPerHour
    /\ maxCallsPerDay = DefaultMaxCallsPerDay
    /\ numberOfRetries = DefaultNumberOfRetries
    /\ \E stored \in StoredHistories : apiCalls = loadFromStorage(stored, now)

----------------------------------------------------------------------------
(* analyzeWithGroq -> makeGroqRequest -> withRateLimit *)

\* whether analyzeWithGroq reaches withRateLimit
reachesGate(analysisType, key) ==
    /\ getAnalysisPrompt("chapter", analysisType) # <<>>
    /\ ~(key = <<>> \/ trim(key) = <<>>)

\* analyzeWithGroq up to its first suspension, with the credential in the environment
analyzeWithGroq(tk, analysisType, key) ==
    LET started == [tk EXCEPT !.analysisType = analysisType, !.apiKey = key]
    IN  IF getAnalysisPrompt("chapter", analysisType) = <<>>
        THEN Reject(started, NewError(UnsupportedMessage))
        ELSE IF key = <<>> \/ trim(key) = <<>>
        THEN Reject(started, NewError(KeyRequiredMessage))
        ELSE withRateLimit(started, 0)

\* a caller sets the credential and invokes analyzeWithGroq
AnalyzeWithGroq(t, analysisType, key) ==
    /\ tasks[t].pc = "idle"
    /\ \A u \in Tasks : u < t => tasks[u].pc # "idle"
    /\ tasks' = [tasks EXCEPT ![t] = analyzeWithGroq(tasks[t], analysisType, key)]
    /\ apiCalls' = IF reachesGate(analysisType, key)
                   THEN cleanupOldCalls(apiCalls, now) ELSE apiCalls
    /\ ret' = NoReturn
    /\ UNCHANGED <<now, gateVars, ticks, driverVars>>

RECURSIVE SumAttempts(_)
SumAttempts(n) == IF n = 0 THEN 0 ELSE tasks[n].attempts + SumAttempts(n - 1)

TotalAttempts == SumAttempts(NumTasks)

\* the timer of the rate-limit wait fires and apiCall() is issued
TimedWaitElapsed(t) ==
    /\ tasks[t].pc = "waiting"
    /\ now >= tasks[t].wakeAt
    /\ tasks' = [tasks EXCEPT ![t] = IssueApiCall(tasks[t])]
    /\ ret' = NoReturn
    /\ UNCHANGED <<now, apiCalls, gateVars, ticks, driverVars>>

\* the awaited apiCall() settles with an axios outcome; cap bounds the number of
\* throttled attempts of the run
ApiCallSettles(t, outcome, cap) ==
    /\ tasks[t].pc = "calling"
    /\ outcome.status = 429 => TotalAttempts < cap
    /\ LET settled == groqApiCall(outcome)
           tk == [tasks[t] EXCEPT !.lastOutcome = outcome]
       IN  IF settled.name = "ok"
           THEN /\ apiCalls' = recordCall(apiCalls, now, tk.endpoint)
                /\ tasks' = [tasks EXCEPT ![t] =
                                [tk EXCEPT !.pc = "done", !.recorded = @ + 1]]
           ELSE /\ tasks' = [tasks EXCEPT ![t] = catchError(tk, settled)]
                /\ UNCHANGED apiCalls
    /\ ret' = NoReturn
    /\ UNCHANGED <<now, gateVars, ticks, driverVars>>

\* the retry-after timer fires: return withRateLimit(apiCall, endpoint, retry++)
RetryAfterElapsed(t) ==
    /\ tasks[t].pc = "backoff"
    /\ now >= tasks[t].wakeAt
    /\ tasks' = [tasks EXCEPT ![t] = withRateLimit(tasks[t], retryArgument(tasks[t].retry))]
    /\ apiCalls' = cleanupOldCalls(apiCalls, now)
    /\ ret' = NoReturn
    /\ UNCHANGED <<now, gateVars, ticks, driverVars>>

----------------------------------------------------------------------------
(* The clock *)

TickDelays == {1000, OneMinute \div 2}

Sleeping == {t \in Tasks : tasks[t].pc \in {"waiting", "backoff"} /\ tasks[t].wakeAt > now}

\* time passes while no timer is pending; cap bounds the clock advances of the run
Tick(d, cap) ==
    /\ ticks < cap
    /\ Sleeping = {}
    /\ now' = now + d
    /\ ticks' = ticks + 1
    /\ ret' = NoReturn
    /\ UNCHANGED <<apiCalls, gateVars, tasks, driverVars>>

\* time passes until the earliest pending timer is due
AdvanceToTimer ==
    /\ Sleeping # {}
    /\ \E t \in Sleeping :
          /\ \A u \in Sleeping : tasks[t].wakeAt <= tasks[u].wakeAt
          /\ now' = tasks[t].wakeAt
    /\ ret' = NoReturn
    /\ UNCHANGED <<apiCalls, gateVars, tasks, ticks, driverVars>>

\* one analyzeWithGroq invocation
Next ==
    \/ \E analysisType \in RequestedTypes, key \in ApiKeys :
          AnalyzeWithGroq(1, analysisType, key)
    \/ TimedWaitElapsed(1)
    \/ \E outcome \in AxiosOutcomes : ApiCallSettles(1, outcome, MaxAttempts)
    \/ RetryAfterElapsed(1)
    \/ \E d \in TickDelays : Tick(d, MaxTicks)
    \/ AdvanceToTimer

Spec == Init /\ [][Next]_vars

\* NumTasks logically concurrent analyzeWithGroq invocations
NextConcurrent ==
    \/ \E t \in Tasks, analysisType \in RequestedTypes, key \in ApiKeys :
          AnalyzeWithGroq(t, analysisType, key)
    \/ \E t \in Tasks : TimedWaitElapsed(t)
    \/ \E t \in Tasks, outcome \in AxiosOutcomes : ApiCallSettles(t, outcome, MaxThrottled)
    \/ \E t \in Tasks : RetryAfterElapsed(t)
    \/ \E d \in TickDelays : Tick(d, MaxTicks)
    \/ AdvanceToTimer

ConcurrentSpec == Init /\ [][NextConcurrent]_vars

----------------------------------------------------------------------------
(* The RateLimitManager on its own: its methods called directly *)

\* constructor arguments: the defaults and a small configuration
GateConfigs == {<<DefaultMaxCallsPerMinute, DefaultMaxCallsPerHour, DefaultMaxCallsPerDay>>,
                <<2, 2, 2>>}

\* new RateLimitManager({maxCallsPerMinute, maxCallsPerHour, maxCallsPerDay})
InitGate ==
    /\ InitCommon
    /\ InitComponent
    /\ numberOfRetries = DefaultNumberOfRetries
    /\ \E config \in GateConfigs :
          /\ maxCallsPerMinute = config[1]
          /\ maxCallsPerHour = config[2]
          /\ maxCallsPerDay = config[3]
          /\ \E stored \in StoredHistories :
                /\ Len(stored) <= config[2]
                /\ apiCalls = loadFromStorage(stored, now)

RecordCall(e) ==
    /\ Len(SelectSeq(apiCalls, LAMBDA c : c.timestamp >= StartTime)) < MaxCalls
    /\ apiCalls' = recordCall(apiCalls, now, e)
    /\ ret' = [op |-> "recordCall", endpoint |-> e, value |-> 0]
    /\ UNCHANGED <<now, gateVars, tasks, ticks, driverVars>>

CanMakeCall(e) ==
    /\ apiCalls' = cleanupOldCalls(apiCalls, now)
    /\ ret' = [op |-> "canMakeCall", endpoint |-> e, value |-> canMakeCall(apiCalls, now, e)]
    /\ UNCHANGED <<now, gateVars, tasks, ticks, driverVars>>

GetTimeToWait(e) ==
    /\ apiCalls' = cleanupOldCalls(apiCalls, now)
    /\ ret' = [op |-> "getTimeToWait", endpoint |-> e, value |-> getTimeToWait(apiCalls, now, e)]
    /\ UNCHANGED <<now, gateVars, tasks, ticks, driverVars>>

GetLimitsInfo(e) ==
    /\ apiCalls' = cleanupOldCalls(apiCalls, now)
    /\ ret' = [op |-> "getLimitsInfo", endpoint |-> e, value |-> getLimitsInfo(apiCalls, now, e)]
    /\ UNCHANGED <<now, gateVars, tasks, ticks, driverVars>>

GateDelays == {OneMinute \div 2, OneHour \div 2, OneDay \div 2}

NextGate ==
    \/ \E e \in Endpoints : RecordCall(e)
    \/ \E e \in Endpoints : CanMakeCall(e)
    \/ \E e \in Endpoints : GetTimeToWait(e)
    \/ \E e \in Endpoints : GetLimitsInfo(e)
    \/ \E d \in GateDelays : Tick(d, MaxGateTicks)

GateSpec == InitGate /\ [][NextGate]_vars

\* one analyzeWithGroq invocation while other callers of the shared
\* rateLimitManager record their calls
NextRetry ==
    \/ \E analysisType \in RequestedTypes, key \in ApiKeys :
          AnalyzeWithGroq(1, analysisType, key)
    \/ TimedWaitElapsed(1)
    \/ \E outcome \in AxiosOutcomes : ApiCallSettles(1, outcome, MaxRetried)
    \/ RetryAfterElapsed(1)
    \/ AdvanceToTimer
    \/ RecordCall("groq")

RetrySpec == Init /\ [][NextRetry]_vars

\* errors of an apiCall that carry the code of a rate limit, without a response
\* and with one (its retry-after header absent or given)
CodedErrors ==
    {Err("Error", "Rate limit exceeded", 0, "", "rate_limit_exceeded")}
    \cup {Err("APIError", "Rate limit exceeded", 400, h, "rate_limit_exceeded") :
              h \in RetryAfterHeaders}

\* the awaited apiCall() of a caller other than makeGroqRequest rejects with error
ApiCallThrows(t, error, cap) ==
    /\ tasks[t].pc = "calling"
    /\ TotalAttempts < cap
    /\ tasks' = [tasks EXCEPT ![t] = catchError([tasks[t] EXCEPT !.lastOutcome = error], error)]
    /\ ret' = NoReturn
    /\ UNCHANGED <<now, apiCalls, gateVars, ticks, driverVars>>

NextCoded ==
    \/ \E analysisType \in RequestedTypes, key \in ApiKeys : AnalyzeWithGroq(1, analysisType, key)
    \/ TimedWaitElapsed(1)
    \/ \E outcome \in AxiosOutcomes : ApiCallSettles(1, outcome, MaxRetried)
    \/ \E error \in CodedErrors : ApiCallThrows(1, error, MaxRetried)
    \/ RetryAfterElapsed(1)
    \/ AdvanceToTimer
    \/ RecordCall("groq")

CodedSpec == Init /\ [][NextCoded]_vars

----------------------------------------------------------------------------
(* The TextAnalysis component: analyzeAllChapters and performAnalysis *)

\* analyses cached by earlier sessions
CachedAtMount ==
    {[c \in Chapters |-> {}],
     [c \in Chapters |-> IF c = 1 THEN {"characters"} ELSE {}]}

\* call histories and responses exercised with the component
DriverHistories ==
    {<<>>, StoredCalls(DefaultMaxCallsPerMinute, 1000, StartTime - 20000, "groq")}

DriverOutcomes == {outcome \in AxiosOutcomes : outcome.status \in {200, 401, 500}}

\* one more user interaction
Click == clicks < MaxClicks /\ clicks' = clicks + 1

\* the singleton gate and the mounted component: the stored key and the cached
\* analyses are loaded by the mount effects
InitDriver ==
    /\ InitCommon
    /\ maxCallsPerMinute = DefaultMaxCallsPerMinute
    /\ maxCallsPerHour = DefaultMaxCallsPerHour
    /\ maxCallsPerDay = DefaultMaxCallsPerDay
    /\ numberOfRetries = DefaultNumberOfRetries
    /\ \E stored \in DriverHistories : apiCalls = loadFromStorage(stored, now)
    /\ isLoading = FALSE
    /\ apiKey \in {Null, StoredKey}
    /\ pendingAction = NoAction
    /\ showApiKeyModal = FALSE
    /\ activeAnalysis = "characters"
    /\ cachedAnalyses \in CachedAtMount
    /\ analysisData = cachedAnalyses
    /\ display = NoDisplay
    /\ run = NoRun
    /\ single = NoSingle
    /\ issued = <<>>
    /\ detect = NoDetect
    /\ clicks = 0
    /\ text = <<>>
    /\ chapters = NotSplit
    /\ prep = NoPrep
    /\ reply = NoReply
    /\ store = EmptyStore

\* checkExistingChapterAnalysis: data is the analysisData of the caller's closure
hasExisting(data, i, type) == type \in data[i] \/ type \in cachedAnalyses[i]

\* the loop without the test of checkExistingChapterAnalysis
nextUnchecked(from, data, type) == IF from >= NumChapters THEN NumChapters ELSE from

\* the first chapter from index from on whose analysis does not exist yet
RECURSIVE nextToAnalyze(_, _, _)
nextToAnalyze(from, data, type) ==
    IF from >= NumChapters THEN NumChapters
    ELSE IF hasExisting(data, from, type) THEN nextToAnalyze(from + 1, data, type)
    ELSE from

\* setAnalysisData of checkExistingChapterAnalysis for the chapters found in the cache
mergeCached(current, data, skipped, type) ==
    [c \in Chapters |->
        IF c \in skipped /\ type \notin data[c] THEN current[c] \cup {type} ELSE current[c]]

\* Math.round((i / chapters.length) * 100)
progressAt(i) == (200 * i + NumChapters) \div (2 * NumChapters)

mentionsApiKey(error) == error.message \in {InvalidKeyMessage, KeyRequiredMessage}

InvalidKeyNotice == "Invalid API key. Please check your API key and try again."
AnalysisFailedNotice == "Analysis failed"
DetectionFailedNotice == "Failed to detect language"
RateLimitReachedMessage == "Rate limit reached. Please try again later."

FreeTasks(ts) == {t \in Tasks : ts[t].pc = "idle"}
FirstFree(ts) == CHOOSE t \in FreeTasks(ts) : \A u \in FreeTasks(ts) : t <= u
SettledOrPending(t) == tasks[t].pc # "idle"
Settled(t) == tasks[t].pc \in {"done", "rejected"}

\* the for loop of analyzeAllChapters from index from up to its next await, run by
\* the invocation with closure r; data, shown, key, modal and ts are the values
\* the component state and the task slots have when the loop is entered
ContinueRun(from, r, data, shown, key, modal, ts, log) ==
    LET type == r.analysisType
        n == nextToAnalyze(from, r.analysisData, type)
        skipped == from .. (n - 1)
        merged == mergeCached(data, r.analysisData, skipped, type)
        seen == IF skipped = {} THEN shown
                ELSE [shown EXCEPT !.activeChapter = n - 1]
    IN  /\ analysisData' = merged
        /\ activeAnalysis' = IF skipped = {} THEN activeAnalysis ELSE type
        /\ apiKey' = key
        /\ showApiKeyModal' = modal
        /\ IF n >= NumChapters
           THEN /\ display' = [seen EXCEPT !.analysisProgress = 100]
                /\ isLoading' = FALSE
                /\ run' = NoRun
                /\ tasks' = ts
                /\ issued' = log
                /\ UNCHANGED apiCalls
           ELSE /\ FreeTasks(ts) # {}
                /\ LET t == FirstFree(ts)
                   IN  /\ tasks' = [ts EXCEPT ![t] = analyzeWithGroq(IdleTask, type, r.apiKey)]
                       /\ run' = [r EXCEPT !.pc = "awaiting", !.i = n, !.task = t]
                /\ apiCalls' = IF reachesGate(type, r.apiKey)
                               THEN cleanupOldCalls(apiCalls, now) ELSE apiCalls
                /\ display' = [seen EXCEPT !.analysisProgress = progressAt(n),
                                           !.error = "none"]
                /\ isLoading' = TRUE
                /\ issued' = Append(log, n)

\* the button "Analyze All Chapters": analyzeAllChapters()
AnalyzeAllChapters ==
    /\ ~isLoading /\ NumChapters # 0
    /\ Click
    /\ run.pc = "idle"
    /\ IF apiKey = Null
       THEN /\ pendingAction' = [type |-> "analyze-all", chapterIndex |-> -1,
                                 analysisType |-> activeAnalysis]
            /\ showApiKeyModal' = TRUE
            /\ display' = [display EXCEPT !.error = "none"]
            /\ UNCHANGED <<isLoading, apiKey, activeAnalysis, analysisData, run, issued,
                           tasks, apiCalls>>
       ELSE /\ ContinueRun(0, [NoRun EXCEPT !.apiKey = apiKey,
                                            !.analysisType = activeAnalysis,
                                            !.analysisData = analysisData],
                           analysisData, [display EXCEPT !.error = "none"],
                           apiKey, showApiKeyModal, tasks, <<>>)
            /\ UNCHANGED pendingAction
    /\ ret' = NoReturn
    /\ UNCHANGED <<text, chapters, prep, reply, store>>
    /\ UNCHANGED <<now, gateVars, ticks, cachedAnalyses, single, detect>>

\* performAnalysis resumes after await analyzeWithGroq and the loop goes on
PerformAnalysisOfRunResumes ==
    /\ run.pc = "awaiting"
    /\ Settled(run.task)
    /\ LET tk == tasks[run.task]
           ok == tk.pc = "done"
           type == run.analysisType
           data == IF ok THEN [analysisData EXCEPT ![run.i] = @ \cup {type}]
                   ELSE analysisData
           badKey == ~ok /\ mentionsApiKey(tk.error)
           shown == IF ok THEN [display EXCEPT !.activeChapter = run.i]
                    ELSE IF badKey THEN [display EXCEPT !.error = InvalidKeyNotice]
                    ELSE [display EXCEPT !.error = AnalysisFailedNotice]
       IN  /\ cachedAnalyses' = IF ok THEN [cachedAnalyses EXCEPT ![run.i] = @ \cup {type}]
                                ELSE cachedAnalyses
           /\ ContinueRun(run.i + 1, run, data, shown,
                          IF badKey THEN Null ELSE apiKey,
                          IF badKey THEN TRUE ELSE showApiKeyModal,
                          [tasks EXCEPT ![run.task] = IdleTask], issued)
    /\ ret' = NoReturn
    /\ UNCHANGED <<text, chapters, prep, reply, store>>
    /\ UNCHANGED <<now, gateVars, ticks, pendingAction, single, detect, clicks>>

\* performAnalysis(chapterIndex, type, currentApiKey) up to its await
StartSingle(c, type, key) ==
    /\ FreeTasks(tasks) # {}
    /\ LET t == FirstFree(tasks)
       IN  /\ tasks' = [tasks EXCEPT ![t] = analyzeWithGroq(IdleTask, type, key)]
           /\ single' = [pc |-> "awaiting", chapterIndex |-> c, analysisType |-> type,
                         task |-> t]
    /\ apiCalls' = IF reachesGate(type, key) THEN cleanupOldCalls(apiCalls, now) ELSE apiCalls
    /\ isLoading' = TRUE
    /\ display' = [display EXCEPT !.analysisProgress = 0, !.error = "none"]

\* the button "Analyze" of a chapter: handleAnalyzeChapter(c, activeAnalysis)
HandleAnalyzeChapter(c) ==
    /\ ~isLoading
    /\ Click
    /\ single.pc = "idle"
    /\ IF hasExisting(analysisData, c, activeAnalysis)
       THEN /\ analysisData' = mergeCached(analysisData, analysisData, {c}, activeAnalysis)
            /\ display' = [display EXCEPT !.activeChapter = c]
            /\ UNCHANGED <<pendingAction, showApiKeyModal, tasks, single, apiCalls, isLoading>>
       ELSE IF apiKey = Null
       THEN /\ pendingAction' = [type |-> "analyze", chapterIndex |-> c,
                                 analysisType |-> activeAnalysis]
            /\ showApiKeyModal' = TRUE
            /\ UNCHANGED <<analysisData, display, tasks, single, apiCalls, isLoading>>
       ELSE /\ StartSingle(c, activeAnalysis, apiKey)
            /\ UNCHANGED <<analysisData, pendingAction, showApiKeyModal>>
    /\ ret' = NoReturn
    /\ UNCHANGED <<text, chapters, prep, reply, store>>
    /\ UNCHANGED <<now, gateVars, ticks, apiKey, activeAnalysis, cachedAnalyses, run, issued,
                   detect>>

\* performAnalysis of a single chapter resumes after await analyzeWithGroq
PerformAnalysisResumes ==
    /\ single.pc = "awaiting"
    /\ Settled(single.task)
    /\ LET tk == tasks[single.task]
           ok == tk.pc = "done"
           c == single.chapterIndex
           type == single.analysisType
           badKey == ~ok /\ mentionsApiKey(tk.error)
       IN  /\ analysisData' = IF ok THEN [analysisData EXCEPT ![c] = @ \cup {type}]
                              ELSE analysisData
           /\ cachedAnalyses' = IF ok THEN [cachedAnalyses EXCEPT ![c] = @ \cup {type}]
                                ELSE cachedAnalyses
           /\ display' = [error |-> IF ok THEN display.error
                                    ELSE IF badKey THEN InvalidKeyNotice
                                    ELSE AnalysisFailedNotice,
                          analysisProgress |-> 100,
                          activeChapter |-> IF ok THEN c ELSE display.activeChapter]
           /\ apiKey' = IF badKey THEN Null ELSE apiKey
           /\ showApiKeyModal' = IF badKey THEN TRUE ELSE showApiKeyModal
    /\ tasks' = [tasks EXCEPT ![single.task] = IdleTask]
    /\ single' = NoSingle
    /\ isLoading' = FALSE
    /\ ret' = NoReturn
    /\ UNCHANGED <<text, chapters, prep, reply, store>>
    /\ UNCHANGED <<now, apiCalls, gateVars, ticks, pendingAction, activeAnalysis, run, issued,
                   detect, clicks>>

\* detectLanguage(text) up to its first suspension, with the credential in the
\* environment; cached tells whether the language cache holds the text
detectLanguage(tk, key, cached) ==
    LET started == [tk EXCEPT !.analysisType = "language", !.apiKey = key]
        limitsInfo == getLimitsInfo(apiCalls, now, "groq")
    IN  IF cached THEN [started EXCEPT !.pc = "done"]
        ELSE IF limitsInfo.minuteLimit.remaining <= 0
        THEN Reject(started, NewError(RateLimitReachedMessage))
        ELSE IF key = <<>> \/ trim(key) = <<>>
        THEN Reject(started, NewError(KeyRequiredMessage))
        ELSE withRateLimit(started, 0)

\* performLanguageDetection(currentApiKey) up to its await
StartDetection(key) ==
    /\ FreeTasks(tasks) # {}
    /\ LET t == FirstFree(tasks)
       IN  /\ tasks' = [tasks EXCEPT ![t] = detectLanguage(IdleTask, key, detect.cached)]
           /\ detect' = [detect EXCEPT !.pc = "awaiting", !.task = t]
    /\ apiCalls' = IF detect.cached THEN apiCalls ELSE cleanupOldCalls(apiCalls, now)
    /\ display' = [display EXCEPT !.error = "none"]

\* the button "Detect Language": handleDetectLanguage()
HandleDetectLanguage ==
    /\ detect.pc = "idle"
    /\ Click
    /\ IF apiKey = Null
       THEN /\ pendingAction' = [type |-> "detectLanguage", chapterIndex |-> -1,
                                 analysisType |-> "language"]
            /\ showApiKeyModal' = TRUE
            /\ UNCHANGED <<tasks, detect, apiCalls, display>>
       ELSE /\ StartDetection(apiKey)
            /\ UNCHANGED <<pendingAction, showApiKeyModal>>
    /\ ret' = NoReturn
    /\ UNCHANGED <<text, chapters, prep, reply, store>>
    /\ UNCHANGED <<now, gateVars, ticks, isLoading, apiKey, activeAnalysis, analysisData,
                   cachedAnalyses, run, single, issued>>

\* performLanguageDetection resumes after await detectLanguage
PerformLanguageDetectionResumes ==
    /\ detect.pc = "awaiting"
    /\ Settled(detect.task)
    /\ LET tk == tasks[detect.task]
           ok == tk.pc = "done"
           badKey == ~ok /\ mentionsApiKey(tk.error)
       IN  /\ display' = [display EXCEPT !.error = IF ok THEN @
                                                   ELSE IF badKey THEN InvalidKeyNotice
                                                   ELSE DetectionFailedNotice]
           /\ apiKey' = IF badKey THEN Null ELSE apiKey
           /\ detect' = [pc |-> "idle", task |-> 0, cached |-> detect.cached \/ ok]
    /\ tasks' = [tasks EXCEPT ![detect.task] = IdleTask]
    /\ ret' = NoReturn
    /\ UNCHANGED <<text, chapters, prep, reply, store>>
    /\ UNCHANGED <<now, apiCalls, gateVars, ticks, isLoading, pendingAction, showApiKeyModal,
                   activeAnalysis, analysisData, cachedAnalyses, run, single, issued, clicks>>

\* the key dialog is submitted: handleApiKeySubmit, onClose and the effect on
\* [apiKey, pendingAction]
HandleApiKeySubmit ==
    /\ showApiKeyModal
    /\ Click
    /\ pendingAction' = NoAction
    /\ IF pendingAction.type = "analyze"
       THEN /\ single.pc = "idle"
            /\ StartSingle(pendingAction.chapterIndex, pendingAction.analysisType, SubmittedKey)
            /\ apiKey' = SubmittedKey
            /\ showApiKeyModal' = FALSE
            /\ UNCHANGED <<analysisData, activeAnalysis, run, issued, detect>>
       ELSE IF pendingAction.type = "detectLanguage"
       THEN /\ detect.pc = "idle"
            /\ StartDetection(SubmittedKey)
            /\ apiKey' = SubmittedKey
            /\ showApiKeyModal' = FALSE
            /\ UNCHANGED <<analysisData, activeAnalysis, isLoading, run, single, issued>>
       ELSE IF pendingAction.type = "analyze-all" /\ ~isLoading /\ NumChapters # 0
       THEN /\ run.pc = "idle"
            /\ ContinueRun(0, [NoRun EXCEPT !.apiKey = SubmittedKey,
                                            !.analysisType = activeAnalysis,
                                            !.analysisData = analysisData],
                           analysisData, [display EXCEPT !.error = "none"],
                           SubmittedKey, FALSE, tasks, <<>>)
            /\ UNCHANGED <<single, detect>>
       ELSE /\ apiKey' = SubmittedKey
            /\ showApiKeyModal' = FALSE
            /\ UNCHANGED <<analysisData, activeAnalysis, display, isLoading, run, single,
                           issued, detect, tasks, apiCalls>>
    /\ ret' = NoReturn
    /\ UNCHANGED <<text, chapters, prep, reply, store>>
    /\ UNCHANGED <<now, gateVars, ticks, cachedAnalyses>>

\* the key dialog is dismissed
CloseApiKeyModal ==
    /\ showApiKeyModal
    /\ Click
    /\ showApiKeyModal' = FALSE
    /\ ret' = NoReturn
    /\ UNCHANGED <<text, chapters, prep, reply, store>>
    /\ UNCHANGED <<now, apiCalls, gateVars, tasks, ticks, isLoading, apiKey, pendingAction,
                   activeAnalysis, analysisData, cachedAnalyses, display, run, single, issued, detect>>

\* another analysis tab is selected
SetActiveAnalysis(type) ==
    /\ ~isLoading
    /\ Click
    /\ type # activeAnalysis
    /\ activeAnalysis' = type
    /\ ret' = NoReturn
    /\ UNCHANGED <<text, chapters, prep, reply, store>>
    /\ UNCHANGED <<now, apiCalls, gateVars, tasks, ticks, isLoading, apiKey, pendingAction,
                   showApiKeyModal, analysisData, cachedAnalyses, display, run, single, issued,
                   detect>>

NextDriver ==
    \/ AnalyzeAllChapters
    \/ PerformAnalysisOfRunResumes
    \/ \E c \in Chapters : HandleAnalyzeChapter(c)
    \/ PerformAnalysisResumes
    \/ HandleApiKeySubmit
    \/ CloseApiKeyModal
    \/ HandleDetectLanguage
    \/ PerformLanguageDetectionResumes
    \/ \E type \in DriverTypes : SetActiveAnalysis(type)
    \/ \E t \in Tasks : TimedWaitElapsed(t)
    \/ \E t \in Tasks, outcome \in DriverOutcomes : ApiCallSettles(t, outcome, MaxThrottled)
    \/ AdvanceToTimer

DriverSpec == InitDriver /\ [][NextDriver]_vars

----------------------------------------------------------------------------
----------------------------------------------------------------------------
(* splitBookIntoChapters *)

UpperCase == <<"A", "B", "C", "D", "E", "F", "G", "H", "I", "J", "K", "L", "M",
               "N", "O", "P", "Q", "R", "S", "T", "U", "V", "W", "X", "Y", "Z">>
LowerCase == <<"a", "b", "c", "d", "e", "f", "g", "h", "i", "j", "k", "l", "m",
               "n", "o", "p", "q", "r", "s", "t", "u", "v", "w", "x", "y", "z">>
DigitChars == <<"0", "1", "2", "3", "4", "5", "6", "7", "8", "9">>

Range(f) == {f[i] : i \in DOMAIN f}

\* \d, \w and the numeral class [IVXLCDM], with and without the i flag
Digit == Range(DigitChars)
WordChar == Range(UpperCase) \cup Range(LowerCase) \cup Digit \cup {"_"}
Roman == {"I", "V", "X", "L", "C", "D", "M"}
RomanIgnoreCase == Roman \cup {"i", "v", "x", "l", "c", "d", "m"}

\* the character folded to lower case
toLowerCase(c) ==
    IF c \in Range(UpperCase)
    THEN LowerCase[CHOOSE k \in DOMAIN UpperCase : UpperCase[k] = c]
    ELSE c

\* the decimal digits of a number, as a template literal prints it
RECURSIVE toString(_)
toString(n) ==
    IF n < 10 THEN <<DigitChars[n + 1]>>
    ELSE toString(n \div 10) \o <<DigitChars[(n % 10) + 1]>>

isWordAt(t, i) == i >= 1 /\ i <= Len(t) /\ t[i] \in WordChar

\* \b in front of the character at position i
wordBoundary(t, i) == isWordAt(t, i - 1) # isWordAt(t, i)

\* the first position from i on whose character is not in class (greedy class+)
runEnd(t, i, class) ==
    IF i > Len(t) THEN i
    ELSE CHOOSE j \in i .. (Len(t) + 1) :
            /\ j > Len(t) \/ t[j] \notin class
            /\ \A m \in i .. (j - 1) : t[m] \in class

\* the literal word at position i
literalAt(t, i, word, ignoreCase) ==
    /\ i + Len(word) - 1 <= Len(t)
    /\ \A k \in DOMAIN word :
          IF ignoreCase THEN toLowerCase(t[i + k - 1]) = toLowerCase(word[k])
          ELSE t[i + k - 1] = word[k]

\* ([IVXLCDM]+|\d+) at position i: the position after it, 0 when it does not match
numeralEnd(t, i, roman) ==
    IF i > Len(t) THEN 0
    ELSE IF t[i] \in roman THEN runEnd(t, i, roman)
    ELSE IF t[i] \in Digit THEN runEnd(t, i, Digit)
    ELSE 0

ChapterWord == <<"C", "H", "A", "P", "T", "E", "R">>
ChapterWordCapitalized == <<"C", "h", "a", "p", "t", "e", "r">>

\* \bCHAPTER\s+([IVXLCDM]+|\d+)(?:\s+|:|\.) at position i: the position after the
\* match, 0 when there is none
headingEnd(t, i, word, ignoreCase) ==
    LET a == i + Len(word)
        b == runEnd(t, a, Whitespace)
        c == numeralEnd(t, b, IF ignoreCase THEN RomanIgnoreCase ELSE Roman)
    IN  IF ~(wordBoundary(t, i) /\ literalAt(t, i, word, ignoreCase)) THEN 0
        ELSE IF b = a \/ c = 0 \/ c > Len(t) THEN 0
        ELSE IF t[c] \in Whitespace THEN runEnd(t, c, Whitespace)
        ELSE IF t[c] \in {":", "."} THEN c + 1
        ELSE 0

\* \b([IVXLCDM]+|\d+)\.\s+ at position i
dottedEnd(t, i) ==
    LET c == numeralEnd(t, i, Roman)
    IN  IF ~wordBoundary(t, i) \/ c = 0 \/ c + 1 > Len(t) THEN 0
        ELSE IF t[c] = "." /\ t[c + 1] \in Whitespace THEN runEnd(t, c + 1, Whitespace)
        ELSE 0

\* \n\s*([IVXLCDM]+|\d+)\s*\n at position i
ownLineEnd(t, i) ==
    LET b == runEnd(t, i + 1, Whitespace)
        c == numeralEnd(t, b, Roman)
        d == runEnd(t, c, Whitespace)
        newlines == {j \in c .. (d - 1) : t[j] = "\n"}
    IN  IF i > Len(t) \/ t[i] # "\n" \/ c = 0 \/ newlines = {} THEN 0
        ELSE (CHOOSE j \in newlines : \A k \in newlines : k <= j) + 1

NumPatterns == 4

\* chapterPatterns[k - 1] matched at position i
matchEnd(k, t, i) ==
    CASE k = 1 -> headingEnd(t, i, ChapterWord, TRUE)
      [] k = 2 -> headingEnd(t, i, ChapterWordCapitalized, FALSE)
      [] k = 3 -> dottedEnd(t, i)
      [] OTHER -> ownLineEnd(t, i)

\* the positions at which chapterPatterns[k - 1] matches
matchStarts(k, t) == {i \in 1 .. Len(t) : matchEnd(k, t, i) # 0}

\* while ((match = pattern.exec(text)) !== null) with the g flag and lastIndex
\* at position from: the markers pushed, index counted from 0
RECURSIVE execFrom(_, _, _, _)
execFrom(k, t, starts, from) ==
    LET ahead == {i \in starts : i >= from}
        i == CHOOSE i \in ahead : \A j \in ahead : i <= j
        e == matchEnd(k, t, i)
    IN  IF ahead = {} THEN <<>>
        ELSE <<[index |-> i - 1, title |-> trim(SubSeq(t, i, e - 1))]>>
             \o execFrom(k, t, starts, e)

execAll(k, t) == execFrom(k, t, matchStarts(k, t), 1)

RECURSIVE markersOf(_, _)
markersOf(t, k) ==
    IF k > NumPatterns THEN <<>> ELSE execAll(k, t) \o markersOf(t, k + 1)

RECURSIVE insertByIndex(_, _)
insertByIndex(m, sorted) ==
    IF sorted = <<>> THEN <<m>>
    ELSE IF m.index < Head(sorted).index THEN <<m>> \o sorted
    ELSE <<Head(sorted)>> \o insertByIndex(m, Tail(sorted))

\* chapterMarkers.sort((a, b) => a.index - b.index), a stable sort
RECURSIVE sortByIndex(_)
sortByIndex(markers) ==
    IF markers = <<>> THEN <<>>
    ELSE insertByIndex(markers[Len(markers)],
                       sortByIndex(SubSeq(markers, 1, Len(markers) - 1)))

MinContentLength == 100
MaxChapters == 30
TargetChapters == 20

Chapter(title, content) == [title |-> title, content |-> content]

CompleteText == <<"C", "o", "m", "p", "l", "e", "t", "e", " ", "T", "e", "x", "t">>
ChapterPrefix == <<"C", "h", "a", "p", "t", "e", "r", " ">>
ChaptersPrefix == <<"C", "h", "a", "p", "t", "e", "r", "s", " ">>

\* the fallback: the whole text as one chapter
wholeText(t) == <<Chapter(CompleteText, t)>>

\* the loop with titles numbered from 0
RECURSIVE spansFromZeroBased(_, _, _)
spansFromZeroBased(t, markers, i) ==
    IF i >= Len(markers) THEN <<>>
    ELSE LET startIndex == markers[i + 1].index
             endIndex == IF i < Len(markers) - 1 THEN markers[i + 2].index ELSE Len(t)
             chapterContent == trim(SubSeq(t, startIndex + 1, endIndex))
             rest == spansFromZeroBased(t, markers, i + 1)
         IN  IF Len(chapterContent) > MinContentLength
             THEN <<Chapter(ChapterPrefix \o toString(i) \o <<":", " ">>
                                \o markers[i + 1].title,
                            chapterContent)>> \o rest
             ELSE rest

\* the loop with titles numbered by the place of the chapter in the result
spansNumberedByPlace(t, markers, i) ==
    LET span(k) ==
            trim(SubSeq(t, markers[k].index + 1,
                        IF k < Len(markers) THEN markers[k + 1].index ELSE Len(t)))
        kept == SelectSeq([k \in 1 .. Len(markers) |-> k],
                          LAMBDA k : k > i /\ Len(span(k)) > MinContentLength)
    IN  [c \in 1 .. Len(kept) |->
            Chapter(ChapterPrefix \o toString(c) \o <<":", " ">> \o markers[kept[c]].title,
                    span(kept[c]))]

\* the loop over the sorted markers from marker i (counted from 0) on
RECURSIVE spansFrom(_, _, _)
spansFrom(t, markers, i) ==
    IF i >= Len(markers) THEN <<>>
    ELSE LET startIndex == markers[i + 1].index
             endIndex == IF i < Len(markers) - 1 THEN markers[i + 2].index ELSE Len(t)
             chapterContent == trim(SubSeq(t, startIndex + 1, endIndex))
             rest == spansFrom(t, markers, i + 1)
         IN  IF Len(chapterContent) > MinContentLength
             THEN <<Chapter(ChapterPrefix \o toString(i + 1) \o <<":", " ">>
                                \o markers[i + 1].title,
                            chapterContent)>> \o rest
             ELSE rest

\* group.map(ch => ch.content).join('\n\n')
RECURSIVE joinContents(_)
joinContents(group) ==
    IF Len(group) = 1 THEN group[1].content
    ELSE group[1].content \o <<"\n", "\n">> \o joinContents(Tail(group))

\* the combining loop with groups of the target number of chapters
RECURSIVE combineByTarget(_, _, _)
combineByTarget(found, i, chapterGroupSize) ==
    IF i >= Len(found) THEN <<>>
    ELSE LET last == IF i + TargetChapters < Len(found)
                     THEN i + TargetChapters ELSE Len(found)
             group == SubSeq(found, i + 1, last)
         IN  <<Chapter(ChaptersPrefix \o group[1].title \o <<" ", "-", " ">>
                           \o group[Len(group)].title,
                       joinContents(group))>>
             \o combineByTarget(found, i + TargetChapters, chapterGroupSize)

\* the combining loop from chapter i (counted from 0) on
RECURSIVE combineFrom(_, _, _)
combineFrom(found, i, chapterGroupSize) ==
    IF i >= Len(found) THEN <<>>
    ELSE LET last == IF i + chapterGroupSize < Len(found)
                     THEN i + chapterGroupSize ELSE Len(found)
             group == SubSeq(found, i + 1, last)
         IN  <<Chapter(ChaptersPrefix \o group[1].title \o <<" ", "-", " ">>
                           \o group[Len(group)].title,
                       joinContents(group))>>
             \o combineFrom(found, i + chapterGroupSize, chapterGroupSize)

\* the fallback of a variant that trims what it returns
splitBookIntoChaptersTrimmed(t) ==
    LET chapterMarkers == markersOf(t, 1)
        found == spansFrom(t, sortByIndex(chapterMarkers), 0)
    IN  IF chapterMarkers = <<>> \/ found = <<>> THEN wholeText(trim(t))
        ELSE found

splitBookIntoChapters(t) ==
    LET chapterMarkers == markersOf(t, 1)
        found == spansFrom(t, sortByIndex(chapterMarkers), 0)
        chapterGroupSize == (Len(found) + TargetChapters - 1) \div TargetChapters
    IN  IF chapterMarkers = <<>> THEN wholeText(t)
        ELSE IF found = <<>> THEN wholeText(t)
        ELSE IF Len(found) > MaxChapters THEN combineFrom(found, 0, chapterGroupSize)
        ELSE found

\* pieces of book text
Filler(n) == [i \in 1 .. n |-> "o"]
Blocks ==
    <<<<"C", "H", "A", "P", "T", "E", "R", " ", "I", "\n">>,
      <<"C", "h", "a", "p", "t", "e", "r", " ", "2", ".", " ">>,
      <<"\n", "I", "V", "\n">>,
      Filler(MinContentLength - 10),
      <<"o">>,
      <<" ", "\n">>>>

MaxBlocks == 4

\* the texts made of at most n pieces
RECURSIVE TextsUpTo(_)
TextsUpTo(n) ==
    IF n = 0 THEN {<<>>}
    ELSE LET shorter == TextsUpTo(n - 1)
         IN  shorter \cup {s \o Blocks[b] : s \in shorter, b \in DOMAIN Blocks}

MaxHeadings == 12

RomanUnits == <<<<>>, <<"I">>, <<"I", "I">>, <<"I", "I", "I">>, <<"I", "V">>, <<"V">>,
                <<"V", "I">>, <<"V", "I", "I">>, <<"V", "I", "I", "I">>, <<"I", "X">>>>

\* the roman numeral of a number below 40
RECURSIVE toRoman(_)
toRoman(n) == IF n >= 10 THEN <<"X">> \o toRoman(n - 10) ELSE RomanUnits[n + 1]

\* what separates a heading from the text that follows it
HeadingEnds == {<<"\n">>, <<":", " ">>}

\* a book of n headings "CHAPTER <roman>", each followed by len characters of
\* content and a line break
RECURSIVE HeadedBook(_, _, _)
HeadedBook(n, len, ending) ==
    IF n = 0 THEN <<>>
    ELSE HeadedBook(n - 1, len, ending) \o ChapterWord \o <<" ">> \o toRoman(n)
         \o ending \o Filler(len) \o <<"\n">>

HeadedBooks ==
    {HeadedBook(n, len, e) : n \in 1 .. MaxHeadings,
                             len \in {MinContentLength, MinContentLength + 1},
                             e \in HeadingEnds}

\* books whose spans are about 100 characters long: with its heading and the
\* line break after it the first span has 101 characters, 100 without the break
BoundaryBooks ==
    {HeadedBook(n, MinContentLength - 10, e) : n \in 1 .. 3, e \in HeadingEnds}

\* books of more than 30 chapters, one of them behind a numeral on its own line
\* whose span is too short to be a chapter
LongBooks ==
    LET many == {MaxChapters + 1, 2 * TargetChapters, 2 * TargetChapters + 1}
    IN  {HeadedBook(n, MinContentLength + 1, <<"\n">>) : n \in many}
        \cup {Blocks[3] \o HeadedBook(MaxChapters + 1, MinContentLength + 1, <<"\n">>)}

\* books with a numeral on its own line, too short to be a chapter, in front
\* of the headings or behind the last chapter
MarginBooks ==
    LET books == {HeadedBook(n, MinContentLength + 1, <<"\n">>) : n \in 1 .. 3}
    IN  {Blocks[3] \o b : b \in books} \cup {b \o Blocks[3] : b \in books}

InitSplit ==
    /\ InitCommon
    /\ InitComponent
    /\ maxCallsPerMinute = DefaultMaxCallsPerMinute
    /\ maxCallsPerHour = DefaultMaxCallsPerHour
    /\ maxCallsPerDay = DefaultMaxCallsPerDay
    /\ numberOfRetries = DefaultNumberOfRetries
    /\ apiCalls = <<>>

\* the reader opens a book
OpenBook(t) ==
    /\ chapters = NotSplit /\ text = <<>>
    /\ text' = t
    /\ UNCHANGED <<now, apiCalls, gateVars, ret, tasks, ticks, isLoading, apiKey, pendingAction,
                   showApiKeyModal, activeAnalysis, analysisData, cachedAnalyses, display,
                   run, single, issued, detect, clicks, chapters, prep, reply, store>>

\* setChapters(splitBookIntoChapters(bookContent))
SplitBookIntoChapters ==
    /\ chapters = NotSplit
    /\ chapters' = splitBookIntoChapters(text)
    /\ UNCHANGED <<now, apiCalls, gateVars, ret, tasks, ticks, isLoading, apiKey, pendingAction,
                   showApiKeyModal, activeAnalysis, analysisData, cachedAnalyses, display,
                   run, single, issued, detect, clicks, text, prep, reply, store>>

NextSplit ==
    \/ \E t \in TextsUpTo(MaxBlocks) \cup HeadedBooks \cup BoundaryBooks \cup LongBooks
                 \cup MarginBooks :
          OpenBook(t)
    \/ SplitBookIntoChapters

SplitSpec == InitSplit /\ [][NextSplit]_vars

----------------------------------------------------------------------------
(* Text preparation: lib/textCompressionUtils.ts, truncateForAnalysis and optimizePromptForTokenLimit *)

\* A string is a sequence of pieces. A piece is a run of characters of a known
\* length: a sentence (it starts with a capital and ends with '.', '!' or '?'),
\* a blank, a blank line, a marker the code inserts, or characters a..b-1 cut
\* out of another string. Two strings are equal when their pieces are equal.
\* The score of a piece is what the words of a sentence add to the score of
\* the sentence or paragraph holding it.
Piece(kind, a, b, len, score) == [id |-> <<kind, a, b>>, len |-> len, score |-> score]

Space == Piece("space", 0, 0, 1, 0)
ParagraphBreak == Piece("break", 0, 0, 2, 0)
ContentSummarized == Piece("[...content summarized...]", 0, 0, 26, 0)
BeginningSection == Piece("[...beginning section...]", 0, 0, 25, 0)
MiddleSection == Piece("[...middle section...]", 0, 0, 22, 0)
ContentOmitted == Piece("[...content omitted for length...]", 0, 0, 34, 0)
Ellipsis == Piece("...", 0, 0, 3, 0)
TripleQuote == Piece("triple quote", 0, 0, 3, 0)

\* s.length
RECURSIVE length(_)
length(s) ==
    IF s = <<>> THEN 0
    ELSE IF Len(s) = 1 THEN s[1].len
    ELSE LET half == Len(s) \div 2
         IN  length(SubSeq(s, 1, half)) + length(SubSeq(s, half + 1, Len(s)))

\* the index a fractional argument of slice is truncated to; twice is 2 * the argument
ToInteger(twice) == IF twice >= 0 THEN twice \div 2 ELSE 0 - ((0 - twice) \div 2)

\* s.slice(from, to), the arguments given doubled (thirdLength / 2 may end in .5)
slice(s, from2, to2) ==
    LET size == length(s)
        rel(k) == IF k < 0 THEN IF size + k < 0 THEN 0 ELSE size + k
                  ELSE IF k > size THEN size ELSE k
        from == rel(ToInteger(from2))
        to == rel(ToInteger(to2))
    IN  IF to <= from THEN <<>>
        ELSE IF from = 0 /\ to = size THEN s
        ELSE <<Piece("slice", from, to, to - from, 0)>>

\* parts.join(separator)
RECURSIVE join(_, _)
join(parts, separator) ==
    IF parts = <<>> THEN <<>>
    ELSE IF Len(parts) = 1 THEN parts[1]
    ELSE parts[1] \o separator \o join(Tail(parts), separator)

\* text.split(/\n\s*\n/): a text holds no two blanks in a row, so the
\* separators matched are exactly its blank lines
splitParagraphs(s) ==
    LET breaks == {i \in DOMAIN s : s[i] = ParagraphBreak}
        nth(k) == IF k = 0 THEN 0
                  ELSE IF k > Cardinality(breaks) THEN Len(s) + 1
                  ELSE CHOOSE b \in breaks : Cardinality({x \in breaks : x < b}) = k - 1
    IN  [k \in 1..(Cardinality(breaks) + 1) |-> SubSeq(s, nth(k - 1) + 1, nth(k) - 1)]

\* text.replace(/([.!?])\s*(?=[A-Z])/g, "$1|").split("|").filter(s => s.trim().length > 0)
RECURSIVE splitSentences(_)
splitSentences(s) ==
    IF s = <<>> THEN <<>>
    ELSE IF Head(s) \in {Space, ParagraphBreak} THEN splitSentences(Tail(s))
    ELSE <<(<<Head(s)>>)>> \o splitSentences(Tail(s))

\* the score a scorer gives a paragraph or a sentence
RECURSIVE scoreOf(_)
scoreOf(s) == IF s = <<>> THEN 0 ELSE Head(s).score + scoreOf(Tail(s))

scored(items) == [i \in DOMAIN items |-> [paragraph |-> items[i], score |-> scoreOf(items[i])]]

\* Array.prototype.sort((a, b) => b.score - a.score): stable, descending
RECURSIVE insertByScore(_, _)
insertByScore(sorted, item) ==
    IF sorted = <<>> THEN <<item>>
    ELSE IF Head(sorted).score >= item.score
         THEN <<Head(sorted)>> \o insertByScore(Tail(sorted), item)
         ELSE <<item>> \o sorted

RECURSIVE sortByScore(_)
sortByScore(items) ==
    IF items = <<>> THEN <<>>
    ELSE insertByScore(sortByScore(SubSeq(items, 1, Len(items) - 1)), items[Len(items)])

\* items.slice(0, n)
firstOf(items, n) == SubSeq(items, 1, IF n < Len(items) THEN n ELSE Len(items))

\* items.slice(0, n).map(item => item.paragraph)
topOf(items, n) == [i \in DOMAIN firstOf(items, n) |-> items[i].paragraph]

Max(a, b) == IF a >= b THEN a ELSE b

\* Math.ceil(a / b) of positive integers
CeilDiv(a, b) == (a + b - 1) \div b

\* [paragraphs[0], ...top.filter(p => p !== first && p !== last), last]
withFirstAndLast(paragraphs, top) ==
    LET first == paragraphs[1]
        last == paragraphs[Len(paragraphs)]
    IN  <<first>> \o SelectSeq(top, LAMBDA p : p # first /\ p # last) \o <<last>>

summarizeForCharacterAnalysis(t, maxLength) ==
    IF length(t) <= maxLength THEN t
    ELSE LET paragraphs == splitParagraphs(t)
             scoredParagraphs == sortByScore(scored(paragraphs))
             paragraphsToKeep ==
                 Max(5, CeilDiv(Len(paragraphs) * maxLength, length(t)))
             topParagraphs == topOf(scoredParagraphs, paragraphsToKeep)
             result == join(withFirstAndLast(paragraphs, topParagraphs), <<ParagraphBreak>>)
         IN  IF length(result) > maxLength
             THEN paragraphs[1] \o <<ParagraphBreak, ContentSummarized, ParagraphBreak>>
                      \o join(firstOf(topParagraphs, 3), <<ParagraphBreak>>)
                      \o <<ParagraphBreak, ContentSummarized, ParagraphBreak>>
                      \o paragraphs[Len(paragraphs)]
             ELSE result

compressForSentimentAnalysis(t, maxLength) ==
    IF length(t) <= maxLength THEN t
    ELSE LET paragraphs == splitParagraphs(t)
             third == Len(paragraphs) \div 3
             beginning == SubSeq(paragraphs, 1, third)
             middle == SubSeq(paragraphs, third + 1, third * 2)
             end == SubSeq(paragraphs, third * 2 + 1, Len(paragraphs))
             top(section) == topOf(sortByScore(scored(section)), 2)
         IN  join(<<paragraphs[1]>> \o top(beginning) \o <<(<<BeginningSection>>)>>
                      \o top(middle) \o <<(<<MiddleSection>>)>>
                      \o top(end) \o <<paragraphs[Len(paragraphs)]>>,
                  <<ParagraphBreak>>)

compressForThemeAnalysis(t, maxLength) ==
    IF length(t) <= maxLength THEN t
    ELSE LET paragraphs == splitParagraphs(t)
             topParagraphs == topOf(sortByScore(scored(paragraphs)), 6)
         IN  join(withFirstAndLast(paragraphs, topParagraphs), <<ParagraphBreak>>)

\* sentences.indexOf(s), one-based
indexOf(sentences, s) == CHOOSE i \in DOMAIN sentences :
    sentences[i] = s /\ \A j \in 1..(i - 1) : sentences[j] # s

\* the members of a set of positions in ascending order
RECURSIVE ascending(_)
ascending(positions) ==
    IF positions = {} THEN <<>>
    ELSE LET least == CHOOSE p \in positions : \A q \in positions : p <= q
         IN  <<least>> \o ascending(positions \ {least})

extractKeyContent(t, compressionLevel) ==
    IF length(t) < 2000 THEN t
    ELSE LET sentences == splitSentences(t)
         IN  IF Len(sentences) < 10 THEN t
             ELSE LET keepPercent == Max(5, 100 - compressionLevel * 15)
                      sentencesToKeep == Max(10, (Len(sentences) * keepPercent) \div 100)
                      indexedScores ==
                          sortByScore([i \in DOMAIN sentences |->
                              [paragraph |-> i, score |-> scoreOf(sentences[i])]])
                      selectedIndices ==
                          {indexedScores[k].paragraph :
                              k \in DOMAIN firstOf(indexedScores, sentencesToKeep)}
                      kept == selectedIndices \cup (1..3)
                                  \cup ((Len(sentences) - 2)..Len(sentences))
                      \* new Set keeps one copy of equal sentences; the sort by
                      \* indexOf puts it where the sentence first stands
                      uniqueSentences ==
                          {indexOf(sentences, sentences[i]) : i \in kept}
                  IN  join([k \in 1..Cardinality(uniqueSentences) |->
                                sentences[ascending(uniqueSentences)[k]]],
                           <<Space>>)

compressTextForAnalysis(t, analysisType, maxLength) ==
    IF length(t) <= maxLength THEN t
    ELSE IF analysisType \in {"characters", "character-graph"}
         THEN summarizeForCharacterAnalysis(t, maxLength)
    ELSE IF analysisType = "sentiment" THEN compressForSentimentAnalysis(t, maxLength)
    ELSE IF analysisType = "themes" THEN compressForThemeAnalysis(t, maxLength)
    ELSE IF analysisType = "summary" THEN extractKeyContent(t, 3)
    ELSE extractKeyContent(t, 2)

truncateForAnalysis(t, analysisType, maxLength) ==
    LET compressed == compressTextForAnalysis(t, analysisType, maxLength)
        thirdLength == maxLength \div 3
        half == length(t) \div 2
        beginning == slice(t, 0, 2 * thirdLength)
        middle == slice(t, 2 * half - thirdLength, 2 * half + thirdLength)
        end == slice(t, 2 * (length(t) - thirdLength), 2 * length(t))
    IN  IF length(compressed) <= maxLength THEN compressed
        ELSE beginning \o <<ParagraphBreak, ContentOmitted, ParagraphBreak>>
                 \o middle \o <<ParagraphBreak, ContentOmitted, ParagraphBreak>> \o end

Newline == Piece("newline", 0, 0, 1, 0)

\* Math.ceil(text / 4)
estimateTokenCount(chars) == CeilDiv(chars, 4)

\* the words of a prompt before and after the text excerpt, by their length
Instructions(analysisType) ==
    Piece("instructions", 0, 0,
          CASE analysisType = "characters" -> 272
            [] analysisType = "summary" -> 172
            [] analysisType = "sentiment" -> 137
            [] analysisType = "themes" -> 104
            [] OTHER -> 930,
          0)

Format(analysisType) ==
    Piece("format", 0, 0,
          CASE analysisType = "characters" -> 170
            [] analysisType = "summary" -> 139
            [] analysisType = "sentiment" -> 471
            [] OTHER -> 185,
          0)

\* the prompt built around a text excerpt; the character-graph prompt has no quotes
promptAround(excerpt, analysisType) ==
    IF analysisType = "character-graph" THEN <<Instructions(analysisType)>> \o excerpt
    ELSE <<Instructions(analysisType), TripleQuote, Newline>> \o excerpt
             \o <<Newline, TripleQuote, Format(analysisType)>>

DefaultMaxLength == 4000

\* getAnalysisPrompt with the text of the prompt spelled out by its lengths
getAnalysisPromptText(chapterContent, analysisType) ==
    promptAround(truncateForAnalysis(chapterContent, analysisType, DefaultMaxLength),
                 analysisType)

ModelTokenLimits == 8192
DefaultReservedTokens == 1000

optimizePromptForTokenLimit(p, analysisType, reservedTokens) ==
    LET availableTokens == ModelTokenLimits - reservedTokens
        estimatedTokens == estimateTokenCount(length(p))
        quotes == {i \in DOMAIN p : p[i] = TripleQuote}
        \* the pieces after the first and before the last triple quote
        first == CHOOSE i \in quotes : \A j \in quotes : i <= j
        last == CHOOSE i \in quotes : \A j \in quotes : j <= i
        textToCompress == SubSeq(p, first + 1, last - 1)
        keepLength == (length(textToCompress) * availableTokens) \div estimatedTokens
    IN  IF estimatedTokens <= availableTokens THEN p
        ELSE IF quotes # {} /\ first < last /\ length(textToCompress) > 0
             THEN SubSeq(p, 1, first)
                      \o truncateForAnalysis(textToCompress, analysisType, keepLength)
                      \o SubSeq(p, last, Len(p))
        ELSE slice(p, 0, 2 * ((length(p) * availableTokens) \div estimatedTokens))
                 \o <<Ellipsis>>

\* The texts prepared: up to MaxSentences sentences, laid out without blanks
\* between them, on one line, or in paragraphs of one, two or four sentences;
\* the sentences all different or every third one the same.
MaxSentences == 12

Sentence(i) == Piece("sentence", i, 0, 200 + 10 * (i % 5), (i * 3) % 4)

Layouts == {"packed", "line", "paragraphs of 1", "paragraphs of 2", "paragraphs of 4"}

paragraphSize(layout) ==
    CASE layout = "paragraphs of 1" -> 1
      [] layout = "paragraphs of 2" -> 2
      [] OTHER -> 4

TextOf(n, layout, distinct) ==
    LET sentence(i) == Sentence(IF distinct THEN i ELSE i % 3)
    IN  IF layout = "packed" THEN [i \in 1..n |-> sentence(i)]
        ELSE [k \in 1..(2 * n - 1) |->
                 IF k % 2 = 1 THEN sentence((k + 1) \div 2)
                 ELSE IF layout # "line" /\ (k \div 2) % paragraphSize(layout) = 0
                      THEN ParagraphBreak
                 ELSE Space]

PrepTexts ==
    {TextOf(n, layout, distinct) : n \in 1..MaxSentences, layout \in Layouts,
                                   distinct \in BOOLEAN}

\* a chapter of one long sentence
LongText == <<Piece("sentence", 0, 0, 30000, 0)>>

MaxLengths == {500, 1000, 2500, DefaultMaxLength}
ReservedTokens == {DefaultReservedTokens, 7000, 8000}

Prepared(op, input, analysisType, limit, output) ==
    [op |-> op, input |-> input, analysisType |-> analysisType, limit |-> limit,
     output |-> output]

CompressTextForAnalysis(t, analysisType, maxLength) ==
    /\ prep = NoPrep
    /\ prep' = Prepared("compressTextForAnalysis", t, analysisType, maxLength,
                        compressTextForAnalysis(t, analysisType, maxLength))
    /\ UNCHANGED <<now, apiCalls, gateVars, ret, tasks, ticks, isLoading, apiKey, pendingAction,
                   showApiKeyModal, activeAnalysis, analysisData, cachedAnalyses, display,
                   run, single, issued, detect, clicks, text, chapters, reply, store>>

TruncateForAnalysis(t, analysisType, maxLength) ==
    /\ prep = NoPrep
    /\ prep' = Prepared("truncateForAnalysis", t, analysisType, maxLength,
                        truncateForAnalysis(t, analysisType, maxLength))
    /\ UNCHANGED <<now, apiCalls, gateVars, ret, tasks, ticks, isLoading, apiKey, pendingAction,
                   showApiKeyModal, activeAnalysis, analysisData, cachedAnalyses, display,
                   run, single, issued, detect, clicks, text, chapters, reply, store>>

OptimizePromptForTokenLimit(p, analysisType, reservedTokens) ==
    /\ prep = NoPrep
    /\ prep' = Prepared("optimizePromptForTokenLimit", p, analysisType, reservedTokens,
                        optimizePromptForTokenLimit(p, analysisType, reservedTokens))
    /\ UNCHANGED <<now, apiCalls, gateVars, ret, tasks, ticks, isLoading, apiKey, pendingAction,
                   showApiKeyModal, activeAnalysis, analysisData, cachedAnalyses, display,
                   run, single, issued, detect, clicks, text, chapters, reply, store>>

\* analyzeWithGroq up to the request: getAnalysisPrompt, then
\* optimizePromptForTokenLimit with its default reservedTokens
PreparePrompt(chapterContent, analysisType) ==
    LET p == getAnalysisPromptText(chapterContent, analysisType)
    IN  /\ prep = NoPrep
        /\ prep' = Prepared("analyzeWithGroq", p, analysisType, DefaultReservedTokens,
                            optimizePromptForTokenLimit(p, analysisType,
                                                        DefaultReservedTokens))
        /\ UNCHANGED <<now, apiCalls, gateVars, ret, tasks, ticks, isLoading, apiKey,
                       pendingAction, showApiKeyModal, activeAnalysis, analysisData,
                       cachedAnalyses, display, run, single, issued, detect, clicks, text,
                       chapters, reply, store>>

InitPrep == InitSplit

NextPrep ==
    \/ \E t \in PrepTexts, analysisType \in AnalysisTypes, maxLength \in MaxLengths :
           CompressTextForAnalysis(t, analysisType, maxLength)
    \/ \E t \in PrepTexts, analysisType \in AnalysisTypes, maxLength \in MaxLengths :
           TruncateForAnalysis(t, analysisType, maxLength)
    \/ \E t \in PrepTexts \cup {LongText}, analysisType \in AnalysisTypes,
          reservedTokens \in ReservedTokens :
           OptimizePromptForTokenLimit(promptAround(t, analysisType), analysisType,
                                       reservedTokens)
    \/ \E t \in PrepTexts \cup {LongText}, analysisType \in AnalysisTypes :
           PreparePrompt(t, analysisType)

PrepSpec == InitPrep /\ [][NextPrep]_vars

----------------------------------------------------------------------------
(* The response interpreter of analyzeWithGroq *)

\* A response is a sequence of symbols: the four brackets, "k" for a quoted
\* key with its colon, "v" for a string or a number, "," and "x" for a word
\* that is not JSON. Blanks are left out: JSON.parse skips them.
Symbols == {"[", "]", "{", "}", "k", "v", ",", "x"}
Openers == {"[", "{"}
Closers == {"]", "}"}

StructuredTypes == {"characters", "themes", "sentiment", "character-graph"}

\* The JSON grammar. Each operator gives the position after what it has read
\* from position i, or 0 when s does not continue that way.
RECURSIVE valueEnd(_, _), elementsEnd(_, _), membersEnd(_, _)
valueEnd(s, i) ==
    IF i > Len(s) THEN 0
    ELSE IF s[i] = "v" THEN i + 1
    ELSE IF s[i] = "[" THEN
        IF i + 1 <= Len(s) /\ s[i + 1] = "]" THEN i + 2 ELSE elementsEnd(s, i + 1)
    ELSE IF s[i] = "{" THEN
        IF i + 1 <= Len(s) /\ s[i + 1] = "}" THEN i + 2 ELSE membersEnd(s, i + 1)
    ELSE 0

elementsEnd(s, i) ==
    LET e == valueEnd(s, i)
    IN  IF e = 0 \/ e > Len(s) THEN 0
        ELSE IF s[e] = "]" THEN e + 1
        ELSE IF s[e] = "," THEN elementsEnd(s, e + 1)
        ELSE 0

membersEnd(s, i) ==
    IF i > Len(s) \/ s[i] # "k" THEN 0
    ELSE LET e == valueEnd(s, i + 1)
         IN  IF e = 0 \/ e > Len(s) THEN 0
             ELSE IF s[e] = "}" THEN e + 1
             ELSE IF s[e] = "," THEN membersEnd(s, e + 1)
             ELSE 0

\* what a step of the interpreter ends with
Returned(value) == [outcome |-> "returned", value |-> value]
Thrown == [outcome |-> "thrown", value |-> <<>>]
Parsed(s) == [parsed |-> TRUE, text |-> s]
Raw(s) == [parsed |-> FALSE, text |-> s]

\* JSON.parse(s): the value, or a SyntaxError
JSONParse(s) == IF valueEnd(s, 1) = Len(s) + 1 THEN Returned(Parsed(s)) ELSE Thrown

\* response.match(/(\[|\{).*(\]|\})/s): from the first opening bracket that has
\* a closing bracket after it to the last closing bracket; <<>> stands for null
\* (a match is never empty)
jsonMatch(response) ==
    LET opened == {i \in DOMAIN response : response[i] \in Openers}
        closed == {i \in DOMAIN response : response[i] \in Closers}
        first == CHOOSE i \in opened : \A j \in opened : i <= j
        last == CHOOSE i \in closed : \A j \in closed : j <= i
    IN  IF opened # {} /\ closed # {} /\ first < last
        THEN SubSeq(response, first, last)
        ELSE <<>>

\* the catch of the first JSON.parse: append the closing bracket, parse again
repairAndParse(jsonStr) ==
    IF jsonStr # <<>> /\ Head(jsonStr) = "{" THEN JSONParse(jsonStr \o <<"}">>)
    ELSE IF jsonStr # <<>> /\ Head(jsonStr) = "[" THEN JSONParse(jsonStr \o <<"]">>)
    ELSE JSONParse(jsonStr)

\* the inner try: parse, and on a SyntaxError repair and parse again
parseOrRepair(response) ==
    LET jsonStr == IF jsonMatch(response) # <<>> THEN jsonMatch(response) ELSE response
    IN  IF JSONParse(jsonStr).outcome = "returned" THEN JSONParse(jsonStr)
        ELSE repairAndParse(jsonStr)

\* the interpreter without its outer catch
interpretUncaught(response, analysisType) ==
    IF analysisType \in StructuredTypes THEN parseOrRepair(response)
    ELSE Returned(Raw(response))

\* the interpreter that takes the first closing bracket for the end of the span
interpretToFirstCloser(response, analysisType) ==
    LET closed == {i \in DOMAIN response : response[i] \in Closers}
        cut == IF closed = {} THEN response
               ELSE SubSeq(response, 1, CHOOSE i \in closed : \A j \in closed : i <= j)
    IN  IF analysisType \in StructuredTypes
        THEN IF parseOrRepair(cut).outcome = "thrown" THEN Returned(Raw(response))
             ELSE parseOrRepair(cut)
        ELSE Returned(Raw(response))

\* analyzeWithGroq after makeGroqRequest has resolved with response
interpret(response, analysisType) ==
    IF analysisType \in StructuredTypes
    THEN IF parseOrRepair(response).outcome = "thrown" THEN Returned(Raw(response))
         ELSE parseOrRepair(response)
    ELSE Returned(Raw(response))

\* The responses interpreted: every sequence of at most MaxResponseLength
\* symbols, and a themes array cut off inside its first object.
MaxResponseLength == 4

RECURSIVE ResponsesUpTo(_)
ResponsesUpTo(n) ==
    IF n = 0 THEN {<<>>}
    ELSE LET shorter == ResponsesUpTo(n - 1)
         IN  shorter \cup {Append(r, c) : r \in {q \in shorter : Len(q) = n - 1}, c \in Symbols}

TruncatedThemes == <<"[", "{", "k", "v", ",", "k", "v">>

Responses == ResponsesUpTo(MaxResponseLength) \cup {TruncatedThemes}

InterpretResponse(response, analysisType) ==
    /\ reply = NoReply
    /\ LET result == interpret(response, analysisType)
       IN  reply' = [analysisType |-> analysisType, response |-> response,
                     outcome |-> result.outcome, value |-> result.value]
    /\ UNCHANGED <<now, apiCalls, gateVars, ret, tasks, ticks, isLoading, apiKey, pendingAction,
                   showApiKeyModal, activeAnalysis, analysisData, cachedAnalyses, display,
                   run, single, issued, detect, clicks, text, chapters, prep, store>>

InitInterpret == InitSplit

NextInterpret ==
    /\ reply = NoReply
    /\ \E response \in Responses, analysisType \in AnalysisTypes :
           InterpretResponse(response, analysisType)

InterpretSpec == InitInterpret /\ [][NextInterpret]_vars

----------------------------------------------------------------------------
(* The book cache store: lib/bookCacheStore.ts *)

\* cachedBooks maps the id of a book to the length of its content and the time
\* of its last access; the other fields of a book and the cached analyses are
\* small beside the content and are left out of the size of the cache
CachedBook(size, lastAccessed) == [size |-> size, lastAccessed |-> lastAccessed]

MaxRecentBooks == 50
BooksKeptOnEviction == 10
MaxCacheSize == 10 * 1024 * 1024

\* {...books, [id]: book}
withBook(books, id, book) ==
    [b \in DOMAIN books \cup {id} |-> IF b = id THEN book ELSE books[b]]

\* delete books[id]
withoutBook(books, id) == [b \in DOMAIN books \ {id} |-> books[b]]

\* recentBooks.filter(other => other !== id)
withoutId(recentBooks, id) == SelectSeq(recentBooks, LAMBDA other : other # id)

\* the length of the serialized state
RECURSIVE sizeOfContents(_, _)
sizeOfContents(books, sizes) ==
    IF sizes = {} THEN 0
    ELSE LET s == CHOOSE x \in sizes : TRUE
         IN  s * Cardinality({b \in DOMAIN books : books[b].size = s})
                 + sizeOfContents(books, sizes \ {s})

estimateCacheSize(st) ==
    sizeOfContents(st.cachedBooks, {st.cachedBooks[b].size : b \in DOMAIN st.cachedBooks})

\* the while loop of cacheBook over sortedBooks: the books outside booksToKeep,
\* the least recently accessed first and, of two accessed at the same time, the
\* one Object.entries lists first (the smaller id)
RECURSIVE evict(_, _)
evict(st, sortedBooks) ==
    IF sortedBooks = {} \/ estimateCacheSize(st) <= MaxCacheSize THEN st
    ELSE LET books == st.cachedBooks
             idToRemove ==
                 CHOOSE a \in sortedBooks : \A b \in sortedBooks :
                     \/ books[a].lastAccessed < books[b].lastAccessed
                     \/ books[a].lastAccessed = books[b].lastAccessed /\ a <= b
         IN  evict([cachedBooks |-> withoutBook(books, idToRemove),
                    recentBooks |-> withoutId(st.recentBooks, idToRemove)],
                   sortedBooks \ {idToRemove})

cacheBook(st, id, size, t) ==
    LET newState ==
            [cachedBooks |-> withBook(st.cachedBooks, id, CachedBook(size, t)),
             recentBooks |-> firstOf(<<id>> \o withoutId(st.recentBooks, id), MaxRecentBooks)]
        booksToKeep == Range(firstOf(newState.recentBooks, BooksKeptOnEviction))
    IN  IF estimateCacheSize(newState) > MaxCacheSize
        THEN evict(newState, DOMAIN newState.cachedBooks \ booksToKeep)
        ELSE newState

getCachedBook(st, bookId, t) ==
    IF bookId \in DOMAIN st.cachedBooks
    THEN [cachedBooks |-> withBook(st.cachedBooks, bookId,
                                   [st.cachedBooks[bookId] EXCEPT !.lastAccessed = t]),
          recentBooks |-> <<bookId>> \o withoutId(st.recentBooks, bookId)]
    ELSE st

removeBookFromCache(st, bookId) ==
    [cachedBooks |-> withoutBook(st.cachedBooks, bookId),
     recentBooks |-> withoutId(st.recentBooks, bookId)]

\* the contents of the books opened
SmallBook == 1024
LargeBook == 6 * 1024 * 1024

\* the state an earlier session left in localStorage: k books cached one after
\* the other, the first of them small or large
PersistedStore(k, first) ==
    [cachedBooks |-> [b \in 1 .. k |->
                         CachedBook(IF b = 1 THEN first ELSE SmallBook, StartTime - OneDay + b)],
     recentBooks |-> [i \in 1 .. k |-> k + 1 - i]]

PersistedStores ==
    {PersistedStore(k, first) : k \in {MaxRecentBooks - 1, MaxRecentBooks},
                                first \in {SmallBook, LargeBook}}

\* the books opened in the session: an old one and two new ones
BookIds == {1, MaxRecentBooks + 1, MaxRecentBooks + 2}

\* persist: the saved state is loaded when the store is created
Rehydrate(persisted) ==
    /\ store = EmptyStore /\ clicks = 0
    /\ store' = persisted
    /\ UNCHANGED <<now, apiCalls, gateVars, ret, tasks, ticks, isLoading, apiKey, pendingAction,
                   showApiKeyModal, activeAnalysis, analysisData, cachedAnalyses, display,
                   run, single, issued, detect, clicks, text, chapters, prep, reply>>

CacheBook(id, size) ==
    /\ Click
    /\ store' = cacheBook(store, id, size, now)
    /\ UNCHANGED <<now, apiCalls, gateVars, ret, tasks, ticks, isLoading, apiKey, pendingAction,
                   showApiKeyModal, activeAnalysis, analysisData, cachedAnalyses, display,
                   run, single, issued, detect, text, chapters, prep, reply>>

GetCachedBook(bookId) ==
    /\ Click
    /\ store' = getCachedBook(store, bookId, now)
    /\ UNCHANGED <<now, apiCalls, gateVars, ret, tasks, ticks, isLoading, apiKey, pendingAction,
                   showApiKeyModal, activeAnalysis, analysisData, cachedAnalyses, display,
                   run, single, issued, detect, text, chapters, prep, reply>>

RemoveBookFromCache(bookId) ==
    /\ Click
    /\ store' = removeBookFromCache(store, bookId)
    /\ UNCHANGED <<now, apiCalls, gateVars, ret, tasks, ticks, isLoading, apiKey, pendingAction,
                   showApiKeyModal, activeAnalysis, analysisData, cachedAnalyses, display,
                   run, single, issued, detect, text, chapters, prep, reply>>

ClearAllCache ==
    /\ Click
    /\ store' = EmptyStore
    /\ UNCHANGED <<now, apiCalls, gateVars, ret, tasks, ticks, isLoading, apiKey, pendingAction,
                   showApiKeyModal, activeAnalysis, analysisData, cachedAnalyses, display,
                   run, single, issued, detect, text, chapters, prep, reply>>

InitStore == InitSplit

NextStore ==
    \/ \E persisted \in PersistedStores : Rehydrate(persisted)
    \/ \E id \in BookIds, size \in {SmallBook, LargeBook} : CacheBook(id, size)
    \/ \E bookId \in BookIds : GetCachedBook(bookId)
    \/ \E bookId \in BookIds : RemoveBookFromCache(bookId)
    \/ ClearAllCache

StoreSpec == InitStore /\ [][NextStore]_vars

----------------------------------------------------------------------------
(* Properties of the analyze-all driver *)

\* the analysis requests not yet consumed by their caller
Outstanding == {t \in Tasks : tasks[t].pc # "idle" /\ tasks[t].analysisType # "language"}

IssuedAscending ==
    \A a, b \in DOMAIN issued : a < b => issued[a] < issued[b]

OneOutstanding ==
    run.pc = "awaiting" =>
        /\ Outstanding = {run.task}
        /\ issued # <<>> /\ issued[Len(issued)] = run.i

IssuedAfterSettled ==
    (run'.pc = "awaiting" /\ issued' # issued) =>
        \A t \in Outstanding : tasks[t].pc \in {"done", "rejected"}

\* C4: analyzeAllChapters requests the chapters in strictly ascending index order,
\* with at most one analysis request outstanding at any time, and it issues the
\* request of a chapter only once every earlier request of the run has resolved
\* or failed.
ChaptersAnalyzedOneAtATime ==
    /\ [](IssuedAscending /\ OneOutstanding)
    /\ [][IssuedAfterSettled]_vars

\* the run has gone on to a later chapter after an earlier request failed
RunWentOnAfterFailure ==
    /\ run.pc = "awaiting"
    /\ Len(issued) >= 2
    /\ tasks[run.task].pc = "calling"
    /\ run.analysisType \notin analysisData[issued[1]]

\* a run and a single-chapter analysis never overlap, and an action waits for
\* the key only while no key is set
ComponentConsistent ==
    /\ (run.pc = "awaiting" \/ single.pc = "awaiting") => isLoading
    /\ ~(run.pc = "awaiting" /\ single.pc = "awaiting")
    /\ pendingAction # NoAction => apiKey = Null
    /\ pendingAction.type \in {"analyze", "analyze-all"} => ~isLoading
    /\ pendingAction.type = "detectLanguage" => detect.pc = "idle"

\* the chapters from index from on that have neither an in-memory nor a cached
\* result of the kind
Lacking(from, type) ==
    {c \in Chapters : c >= from /\ type \notin analysisData[c] /\ type \notin cachedAnalyses[c]}

\* a step of a run of analyzeAllChapters: its start with a key, or its resumption
\* after a request has settled
RunStarts ==
    \/ AnalyzeAllChapters /\ apiKey # Null
    \/ HandleApiKeySubmit /\ pendingAction.type = "analyze-all" /\ ~isLoading

RunResumes == run.pc = "awaiting" /\ run' # run

\* what a step of the run must do from chapter from on with the requests log
\* issued so far
RequestsFirstLacking(from, type, log) ==
    LET lacking == Lacking(from, type)
    IN  IF lacking = {}
        THEN run'.pc = "idle" /\ issued' = log
        ELSE LET n == CHOOSE c \in lacking : \A d \in lacking : c <= d
             IN  /\ run'.pc = "awaiting" /\ run'.i = n
                 /\ issued' = Append(log, n)
                 /\ tasks'[run'.task].pc # "idle"

\* C26: in one run of analyzeAllChapters the chapters for which a request is
\* issued are exactly those that have no in-memory or cached result of the active
\* kind, each requested once; the failure of the request of one chapter does not
\* abort the run, every later chapter lacking a result is still requested.
RequestsExactlyTheLacking ==
    [][/\ RunStarts => RequestsFirstLacking(0, activeAnalysis, <<>>)
       /\ RunResumes => RequestsFirstLacking(run.i + 1, run.analysisType, issued)
       /\ (~RunStarts /\ ~RunResumes) => issued' = issued]_vars

\* a run has ended that requested chapter 0, whose request failed, skipped the
\* cached chapter 1 and requested chapter 2
RunSkippedCachedAfterFailure ==
    /\ run.pc = "idle" /\ ~isLoading
    /\ issued = <<0, 2>>
    /\ activeAnalysis \notin analysisData[0]
    /\ activeAnalysis \in analysisData[1]
    /\ activeAnalysis \in analysisData[2]

----------------------------------------------------------------------------
(* Properties of splitBookIntoChapters *)

\* the positions (counted from 0) at which some heading pattern matched
MarkerPositions ==
    {m.index : m \in UNION {Range(execAll(k, text)) : k \in 1 .. NumPatterns}}

\* the candidate span that starts at marker position p, trimmed
CandidateSpan(p) ==
    LET later == {q \in MarkerPositions : q > p}
        endIndex == IF later = {} THEN Len(text)
                    ELSE CHOOSE q \in later : \A r \in later : q <= r
    IN  trim(SubSeq(text, p + 1, endIndex))

NoPatternMatches ==
    \A k \in 1 .. NumPatterns, i \in 1 .. Len(text) : matchEnd(k, text, i) = 0

EverySpanDiscarded ==
    \A p \in MarkerPositions : Len(CandidateSpan(p)) <= MinContentLength

\* C10: when none of the four heading patterns matches the text, or every
\* candidate span is discarded as too short, splitBookIntoChapters returns exactly
\* one chapter, titled "Complete Text", whose content is the entire input text.
FallbackIsCompleteText ==
    (chapters # NotSplit /\ (NoPatternMatches \/ EverySpanDiscarded)) =>
        /\ Len(chapters) = 1
        /\ chapters[1].title = CompleteText
        /\ chapters[1].content = text

\* headings were found in a text with surrounding whitespace and every span was
\* too short
FellBackAfterDiscarding ==
    /\ chapters # NotSplit
    /\ MarkerPositions # {}
    /\ EverySpanDiscarded
    /\ trim(text) # text

\* a text without headings was returned whole
FellBackWithoutMarkers ==
    /\ chapters # NotSplit
    /\ NoPatternMatches
    /\ Len(text) > MinContentLength
    /\ trim(text) # text

\* C11: for every input text, the empty text and the texts that take the fallback
\* path included, every chapter returned by splitBookIntoChapters has non-empty
\* content.
ContentNeverEmpty ==
    chapters # NotSplit => \A i \in DOMAIN chapters : chapters[i].content # <<>>

withoutWhitespace(s) == SelectSeq(s, LAMBDA c : c \notin Whitespace)

RECURSIVE concatContents(_)
concatContents(chs) ==
    IF chs = <<>> THEN <<>> ELSE Head(chs).content \o concatContents(Tail(chs))

TookFallback == chapters[1].title = CompleteText

FirstMarkerOffset == CHOOSE p \in MarkerPositions : \A q \in MarkerPositions : p <= q

\* C12: for a text that does not take the fallback path (and is not regrouped), the
\* returned chapters taken in order cover the original text from the offset of the
\* first marker to the end of the text, without gap and without overlap; the
\* whitespace that trim() removes at the ends of a span is not counted as a gap.
ChaptersPartitionText ==
    (chapters # NotSplit /\ ~TookFallback) =>
        withoutWhitespace(concatContents(chapters))
            = withoutWhitespace(SubSeq(text, FirstMarkerOffset + 1, Len(text)))

\* the matches of the first pattern, in text order
HeadingMatches == execAll(1, text)

\* the text between the heading matched at marker k and the next marker, trimmed
ContentAfterHeading(k) ==
    LET from == matchEnd(1, text, HeadingMatches[k].index + 1)
        to == IF k < Len(HeadingMatches) THEN HeadingMatches[k + 1].index ELSE Len(text)
    IN  trim(SubSeq(text, from, to))

\* the only matches are headings "CHAPTER <roman>", at most 30 of them, each
\* followed by at least 100 characters of content
OnlyChapterHeadings ==
    /\ \A k \in 2 .. NumPatterns : execAll(k, text) = <<>>
    /\ HeadingMatches # <<>> /\ Len(HeadingMatches) <= MaxChapters
    /\ \A k \in DOMAIN HeadingMatches :
          /\ literalAt(text, HeadingMatches[k].index + 1, ChapterWord, FALSE)
          /\ HeadingMatches[k].title[Len(ChapterWord) + 2] \in Roman
          /\ Len(ContentAfterHeading(k)) >= MinContentLength

IsPrefix(p, s) == Len(p) <= Len(s) /\ SubSeq(s, 1, Len(p)) = p

\* C13: for a text whose only heading matches are n <= 30 headings "CHAPTER <roman>",
\* each followed by at least 100 characters of content, splitBookIntoChapters
\* returns exactly n chapters in ascending order of their offset in the text, each
\* with at least 100 characters of content, the k-th titled "Chapter k: ...".
OneChapterPerHeading ==
    (chapters # NotSplit /\ OnlyChapterHeadings) =>
        /\ Len(chapters) = Len(HeadingMatches)
        /\ \A k \in DOMAIN chapters :
              /\ IsPrefix(ChapterPrefix \o toString(k) \o <<":", " ">>, chapters[k].title)
              /\ Len(chapters[k].content) >= MinContentLength
              /\ chapters[k].content =
                     trim(SubSeq(text, HeadingMatches[k].index + 1,
                                 IF k < Len(HeadingMatches)
                                 THEN HeadingMatches[k + 1].index ELSE Len(text)))

\* a book of twelve headings was split
TwelveChaptersReturned ==
    /\ chapters # NotSplit
    /\ OnlyChapterHeadings
    /\ Len(HeadingMatches) = 12
    /\ Len(chapters) = 12
    /\ Len(ContentAfterHeading(1)) = MinContentLength

\* every marker found, in the order of the loop over the spans
SortedMarkers == sortByIndex(markersOf(text, 1))

\* the length of the span of the i-th marker: from its offset to the offset of
\* the next marker, or to the end of the text
SpanLength(markers, i) ==
    (IF i < Len(markers) THEN markers[i + 1].index ELSE Len(text)) - markers[i].index

\* the title the chapter of the i-th marker is given
TitleOfMarker(markers, i) == ChapterPrefix \o toString(i) \o <<":", " ">> \o markers[i].title

ReturnedAsChapter(markers, i) ==
    \E c \in DOMAIN chapters : chapters[c].title = TitleOfMarker(markers, i)

Regrouped == IsPrefix(ChaptersPrefix, chapters[1].title)

\* C22: a candidate span is discarded exactly when it is shorter than 100
\* characters: a span of 100 characters or more is returned as a chapter and a
\* shorter one is dropped.
SpanKeptIffHundredOrMore ==
    (chapters # NotSplit /\ ~TookFallback /\ ~Regrouped) =>
        LET markers == SortedMarkers
        IN  \A i \in DOMAIN markers :
                ReturnedAsChapter(markers, i) <=> SpanLength(markers, i) >= MinContentLength

\* the half of C22 that holds: a span shorter than 100 characters is dropped
ShortSpanDropped ==
    (chapters # NotSplit /\ ~TookFallback /\ ~Regrouped) =>
        LET markers == SortedMarkers
        IN  \A i \in DOMAIN markers :
                SpanLength(markers, i) < MinContentLength => ~ReturnedAsChapter(markers, i)

\* the trimmed span of the i-th marker
SpanOfMarker(markers, i) ==
    trim(SubSeq(text, markers[i].index + 1,
                IF i < Len(markers) THEN markers[i + 1].index ELSE Len(text)))

\* the trimmed spans of all markers
SpansOf(markers) == [i \in DOMAIN markers |-> SpanOfMarker(markers, i)]

\* the markers whose span survives the length filter, in text order
Survivors(spans) ==
    SelectSeq([i \in DOMAIN spans |-> i], LAMBDA i : Len(spans[i]) > MinContentLength)

\* the surviving chapters of the j-th run of size chapters
RunOf(survivors, size, j) ==
    LET from == (j - 1) * size + 1
        to == IF j * size < Len(survivors) THEN j * size ELSE Len(survivors)
    IN  SubSeq(survivors, from, to)

\* the spans of a run, joined by a blank line
RECURSIVE JoinedSpans(_, _)
JoinedSpans(spans, r) ==
    IF Len(r) = 1 THEN spans[r[1]]
    ELSE spans[r[1]] \o <<"\n", "\n">> \o JoinedSpans(spans, Tail(r))

\* C23: when more than 30 chapters survive, they are regrouped into
\* ceil(n / ceil(n / 20)) combined chapters, at most 20; the j-th combined chapter
\* is the in-order joining of the j-th contiguous run of surviving chapters, so
\* every surviving chapter is in exactly one group; and for any input the result
\* has between 1 and 30 chapters.
RegroupedIntoContiguousRuns ==
    chapters # NotSplit =>
        LET markers == SortedMarkers
            spans == SpansOf(markers)
            survivors == Survivors(spans)
            size == CeilDiv(Len(survivors), TargetChapters)
        IN  /\ Len(chapters) >= 1 /\ Len(chapters) <= MaxChapters
            /\ Len(survivors) > MaxChapters =>
                  /\ Len(chapters) = CeilDiv(Len(survivors), size)
                  /\ Len(chapters) <= TargetChapters
                  /\ \A j \in DOMAIN chapters :
                        LET r == RunOf(survivors, size, j)
                        IN  /\ chapters[j].content = JoinedSpans(spans, r)
                            /\ chapters[j].title =
                                   ChaptersPrefix \o TitleOfMarker(markers, r[1])
                                       \o <<" ", "-", " ">>
                                       \o TitleOfMarker(markers, r[Len(r)])

\* forty-one surviving chapters were regrouped in fourteen runs of three
FortyOneRegrouped ==
    /\ chapters # NotSplit
    /\ Regrouped
    /\ Len(chapters) = 14
    /\ Len(Survivors(SpansOf(SortedMarkers))) = 2 * TargetChapters + 1

\* thirty-one chapters survived next to a discarded marker and were regrouped
RegroupedAfterDiscarding ==
    /\ chapters # NotSplit
    /\ Regrouped
    /\ Len(chapters) = 16
    /\ LET markers == SortedMarkers
       IN  /\ Len(markers) = MaxChapters + 2
           /\ Len(Survivors(SpansOf(markers))) = MaxChapters + 1

\* no marker between the first and the last chapter returned was discarded
NoneDiscardedBetween(spans, survivors) ==
    \A k \in survivors[1] .. survivors[Len(survivors)] : Len(spans[k]) > MinContentLength

\* the title numbers go up by one from each chapter to the next
Consecutive(survivors) ==
    \A c \in 1 .. (Len(survivors) - 1) : survivors[c + 1] = survivors[c] + 1

\* the k-th chapter returned is the chapter of the k-th surviving marker, titled
\* with the rank of that marker among all markers
TitledByRank(markers, spans, survivors) ==
    /\ Len(chapters) = Len(survivors)
    /\ \A c \in DOMAIN chapters :
          /\ chapters[c].title = TitleOfMarker(markers, survivors[c])
          /\ chapters[c].content = spans[survivors[c]]
    /\ \A c \in 1 .. (Len(chapters) - 1) : survivors[c] < survivors[c + 1]

\* C29, as stated: for a result that is neither the fallback nor regrouped the
\* number k of the title "Chapter k: ..." of a chapter is the 1-based rank of its
\* marker among all detected markers sorted by offset, duplicate and discarded
\* markers included; the title numbers increase strictly along the result and
\* are consecutive only when no marker was discarded.
ConsecutiveOnlyIfNoneDiscarded ==
    (chapters # NotSplit /\ ~TookFallback /\ ~Regrouped) =>
        LET markers == SortedMarkers
            spans == SpansOf(markers)
            survivors == Survivors(spans)
        IN  /\ TitledByRank(markers, spans, survivors)
            /\ Consecutive(survivors) => Len(survivors) = Len(markers)

\* C29, amended: the number of a title is the rank of the marker among all
\* detected markers, the numbers increase strictly, and they are consecutive
\* exactly when no marker between the first and the last returned chapter
\* was discarded.
TitleNumberIsMarkerRank ==
    (chapters # NotSplit /\ ~TookFallback /\ ~Regrouped) =>
        LET markers == SortedMarkers
            spans == SpansOf(markers)
            survivors == Survivors(spans)
        IN  /\ TitledByRank(markers, spans, survivors)
            /\ Consecutive(survivors) <=> NoneDiscardedBetween(spans, survivors)

\* two markers stand at the same offset and a chapter returned is numbered two
\* above its place in the result
NumberedAfterDuplicates ==
    /\ chapters # NotSplit /\ ~TookFallback /\ ~Regrouped
    /\ LET markers == SortedMarkers
       IN  /\ \E k \in 1 .. (Len(markers) - 1) : markers[k].index = markers[k + 1].index
           /\ Len(chapters) < Len(markers)
           /\ \E c \in DOMAIN chapters :
                 IsPrefix(ChapterPrefix \o toString(c + 2), chapters[c].title)

\* chapters 1 and 2 were returned and the marker behind them was discarded
ConsecutiveBeforeDiscarded ==
    /\ chapters # NotSplit /\ ~TookFallback /\ ~Regrouped
    /\ Len(chapters) = 2
    /\ IsPrefix(ChapterPrefix \o toString(1), chapters[1].title)
    /\ IsPrefix(ChapterPrefix \o toString(2), chapters[2].title)
    /\ Len(SortedMarkers) = 3

----------------------------------------------------------------------------
(* Properties of text preparation *)

\* C14: compression is non-expansive for every analysis kind: the result of
\* compressTextForAnalysis(text, kind, N) is at most max(text.length, N)
\* characters long, and it is text itself whenever text.length <= N.
CompressionNonExpansive ==
    prep.op = "compressTextForAnalysis" =>
        /\ length(prep.output) <= Max(length(prep.input), prep.limit)
        /\ length(prep.input) <= prep.limit => prep.output = prep.input

\* the half of C14 about short texts
ShortTextUnchanged ==
    (prep.op = "compressTextForAnalysis" /\ length(prep.input) <= prep.limit) =>
        prep.output = prep.input

\* with the default reservedTokens: a prompt over the bound is still over it
\* after fitting
OverBudgetWithDefaultReserve ==
    /\ prep.op = "optimizePromptForTokenLimit"
    /\ prep.limit = DefaultReservedTokens
    /\ estimateTokenCount(length(prep.output)) > ModelTokenLimits - prep.limit

\* C15: the output of optimizePromptForTokenLimit never exceeds the model
\* ceiling, ceil(output.length / 4) <= 8192 - reservedTokens, and a prompt
\* already within that bound is returned unchanged.
TokenBudgetKept ==
    prep.op = "optimizePromptForTokenLimit" =>
        /\ estimateTokenCount(length(prep.output)) <= ModelTokenLimits - prep.limit
        /\ estimateTokenCount(length(prep.input)) <= ModelTokenLimits - prep.limit
               => prep.output = prep.input

\* the half of C15 about prompts already within the bound
FittingPromptUnchanged ==
    (/\ prep.op = "optimizePromptForTokenLimit"
     /\ estimateTokenCount(length(prep.input)) <= ModelTokenLimits - prep.limit) =>
        prep.output = prep.input

\* the prompts analyzeWithGroq builds with getAnalysisPrompt are within the
\* bound before they are fitted
DefaultReserveKept ==
    prep.op = "analyzeWithGroq" =>
        /\ prep.output = prep.input
        /\ estimateTokenCount(length(prep.output)) <= ModelTokenLimits - prep.limit

\* a is b with some of its members left out
RECURSIVE IsSubsequence(_, _)
IsSubsequence(a, b) ==
    IF a = <<>> THEN TRUE
    ELSE IF b = <<>> THEN FALSE
    ELSE IF Head(a) = Head(b) THEN IsSubsequence(Tail(a), Tail(b))
    ELSE IsSubsequence(a, Tail(b))

\* summarizeForCharacterAnalysis compressed a text longer than maxLength
CharactersCompressed ==
    /\ prep.op = "compressTextForAnalysis"
    /\ prep.analysisType \in {"characters", "character-graph"}
    /\ length(prep.input) > prep.limit

\* the paragraphs of the output between its first and its last one, the
\* markers left out
KeptBetween ==
    LET kept == splitParagraphs(prep.output)
    IN  SelectSeq(SubSeq(kept, 2, Len(kept) - 1), LAMBDA p : p # <<ContentSummarized>>)

\* C24: for the characters and character-graph kinds, when text.length > maxLength
\* the output of the compressor begins with the first paragraph and ends with the
\* last paragraph, and the top-scoring paragraphs kept between them stand in
\* their original relative order in the text.
KeptInOriginalOrder ==
    CharactersCompressed =>
        LET paragraphs == splitParagraphs(prep.input)
            kept == splitParagraphs(prep.output)
        IN  /\ kept[1] = paragraphs[1]
            /\ kept[Len(kept)] = paragraphs[Len(paragraphs)]
            /\ IsSubsequence(KeptBetween, paragraphs)

\* the half of C24 that holds: the output begins with the first paragraph and
\* ends with the last one
FirstAndLastKept ==
    CharactersCompressed =>
        LET paragraphs == splitParagraphs(prep.input)
            kept == splitParagraphs(prep.output)
        IN  /\ kept[1] = paragraphs[1]
            /\ kept[Len(kept)] = paragraphs[Len(paragraphs)]

\* the positions of the triple quotes of a prompt
QuotesOf(p) == {i \in DOMAIN p : p[i] = TripleQuote}

\* the prompt holds text between a first and a last triple quote
EmbedsTextInQuotes(p) ==
    \E i, j \in QuotesOf(p) : i < j /\ length(SubSeq(p, i + 1, j - 1)) > 0

\* C25: for each of the five analysis kinds the prompt built by getAnalysisPrompt
\* embeds the compressed chapter text between a pair of triple quotes, so that
\* a prompt over the budget is fitted by recompressing the text between the
\* quotes and never by cutting the whole prompt.
EveryPromptDelimited ==
    /\ prep.op = "analyzeWithGroq" => EmbedsTextInQuotes(prep.input)
    /\ (/\ prep.op = "optimizePromptForTokenLimit"
        /\ estimateTokenCount(length(prep.input)) > ModelTokenLimits - prep.limit) =>
           /\ prep.output[Len(prep.output)] # Ellipsis
           /\ SubSeq(prep.output, 1, 1) = SubSeq(prep.input, 1, 1)

\* the part of C25 that holds: the prompts of the four other kinds are delimited
\* and fitted by recompression
QuotedKindsDelimited ==
    (prep # NoPrep /\ prep.analysisType \in AnalysisTypes \ {"character-graph"}) =>
        /\ prep.op = "analyzeWithGroq" => EmbedsTextInQuotes(prep.input)
        /\ (/\ prep.op = "optimizePromptForTokenLimit"
            /\ estimateTokenCount(length(prep.input)) > ModelTokenLimits - prep.limit) =>
               /\ prep.output[Len(prep.output)] # Ellipsis
               /\ SubSeq(prep.output, 1, 1) = SubSeq(prep.input, 1, 1)

\* the character-graph prompt was cut as a whole
GraphPromptCutBlindly ==
    /\ prep.op = "optimizePromptForTokenLimit"
    /\ prep.analysisType = "character-graph"
    /\ prep.output[Len(prep.output)] = Ellipsis

----------------------------------------------------------------------------
(* Properties of the response interpreter *)

\* the span the interpreter reads: from the first opening bracket to the last
\* closing bracket, the whole response when there is no such span
SpanOf(response) ==
    IF \E i, j \in DOMAIN response :
           i < j /\ response[i] \in Openers /\ response[j] \in Closers
    THEN LET i == CHOOSE i \in DOMAIN response :
                      /\ response[i] \in Openers
                      /\ \A h \in 1..(i - 1) : response[h] \notin Openers
             j == CHOOSE j \in DOMAIN response :
                      /\ response[j] \in Closers
                      /\ \A h \in (j + 1)..Len(response) : response[h] \notin Closers
         IN  SubSeq(response, i, j)
    ELSE response

IsJson(s) == JSONParse(s).outcome = "returned"

\* the span with the closing bracket that matches its first symbol appended
Repaired(span) ==
    IF span = <<>> THEN span
    ELSE IF Head(span) = "{" THEN span \o <<"}">>
    ELSE IF Head(span) = "[" THEN span \o <<"]">>
    ELSE span

\* C16: for the structured kinds the interpreter never raises: it returns the
\* parsed span from the first '[' or '{' to the last ']' or '}'; when that does
\* not parse, the parsed span with the closing bracket matching its first
\* character appended; and when that does not parse either, the raw response.
InterpreterNeverRaises ==
    reply.analysisType \in StructuredTypes =>
        /\ reply.outcome = "returned"
        /\ LET span == SpanOf(reply.response)
           IN  reply.value =
                   IF IsJson(span) THEN Parsed(span)
                   ELSE IF IsJson(Repaired(span)) THEN Parsed(Repaired(span))
                   ELSE Raw(reply.response)

\* a response that parses only after the repair
ReturnedAfterRepair ==
    /\ reply.analysisType \in StructuredTypes
    /\ ~IsJson(SpanOf(reply.response))
    /\ reply.value = Parsed(Repaired(SpanOf(reply.response)))

\* a response that does not parse after the repair either
ReturnedRawResponse ==
    /\ reply.analysisType \in StructuredTypes
    /\ reply.response # <<>>
    /\ ~IsJson(Repaired(SpanOf(reply.response)))
    /\ reply.outcome = "returned"
    /\ reply.value = Raw(reply.response)

\* C17: a themes response that is an array cut off inside its first object,
\* both fields present and no closing bracket, is repaired by appending ']'
\* and parsed: the result is the one-element array, not the raw string.
TruncatedArrayRepaired ==
    (reply.analysisType = "themes" /\ reply.response = TruncatedThemes) =>
        /\ reply.value.parsed
        /\ reply.value.text \in {TruncatedThemes \o <<"]">>, TruncatedThemes \o <<"}", "]">>}

----------------------------------------------------------------------------
(* Properties of the rate limit gate *)

\* the calls of endpoint e made less than window ms before now
Trailing(e, window) ==
    {i \in DOMAIN apiCalls :
        apiCalls[i].endpoint = e /\ now - apiCalls[i].timestamp < window}

BelowCeilings(e) ==
    /\ Cardinality(Trailing(e, OneMinute)) < maxCallsPerMinute
    /\ Cardinality(Trailing(e, OneHour)) < maxCallsPerHour
    /\ Cardinality(Trailing(e, OneDay)) < maxCallsPerDay

\* C5: canMakeCall(endpoint) is true if and only if the endpoint has strictly fewer
\* than maxCallsPerMinute calls in the trailing minute, strictly fewer than
\* maxCallsPerHour in the trailing hour and strictly fewer than maxCallsPerDay in
\* the trailing 24 hours.
CanMakeCallIffBelowCeilings ==
    /\ \A e \in Endpoints : canMakeCall(apiCalls, now, e) <=> BelowCeilings(e)
    /\ ret.op = "canMakeCall" => (ret.value <=> BelowCeilings(ret.endpoint))

\* canMakeCall returned false with the minute ceiling exactly reached and the
\* other two windows below their ceilings
RefusedAtMinuteCeiling ==
    /\ ret.op = "canMakeCall"
    /\ ret.value = FALSE
    /\ Cardinality(Trailing(ret.endpoint, OneMinute)) = maxCallsPerMinute
    /\ Cardinality(Trailing(ret.endpoint, OneHour)) < maxCallsPerHour
    /\ Cardinality(Trailing(ret.endpoint, OneDay)) < maxCallsPerDay

OldestInMinute(e) ==
    LET ts == {apiCalls[i].timestamp : i \in Trailing(e, OneMinute)}
    IN  CHOOSE m \in ts : \A other \in ts : m <= other

ExpectedWait(e) ==
    IF BelowCeilings(e) THEN 0
    ELSE IF Cardinality(Trailing(e, OneMinute)) >= maxCallsPerMinute
         THEN (OldestInMinute(e) + 60000) - now + 100
         ELSE 0

\* C6: getTimeToWait(endpoint) is 0 whenever canMakeCall(endpoint) is true; with
\* the per-minute ceiling reached it is (oldest call of the trailing minute + 60000)
\* - now + 100, greater than 0 and at most 60100; blocked only by the hourly or
\* daily ceiling it is 0.
TimeToWaitAsSpecified ==
    /\ \A e \in Endpoints :
          LET w == getTimeToWait(apiCalls, now, e)
          IN  /\ w = ExpectedWait(e)
              /\ canMakeCall(apiCalls, now, e) => w = 0
              /\ Cardinality(Trailing(e, OneMinute)) >= maxCallsPerMinute
                    => w > 0 /\ w <= 60100
    /\ ret.op = "getTimeToWait" => ret.value = ExpectedWait(ret.endpoint)

\* getTimeToWait returned a positive wait with the minute ceiling reached
WaitedForMinuteWindow ==
    /\ ret.op = "getTimeToWait"
    /\ ret.value > 0
    /\ Cardinality(Trailing(ret.endpoint, OneMinute)) >= maxCallsPerMinute

\* getTimeToWait returned 0 although only the hourly or daily ceiling blocks
ZeroWaitWhileBlocked ==
    /\ ret.op = "getTimeToWait"
    /\ ret.value = 0
    /\ ~canMakeCall(apiCalls, now, ret.endpoint)

\* calls that could be added to the history
FurtherCalls ==
    {Call(now - age, e) : age \in {0, 1, OneMinute - 1, OneMinute, OneHour, OneDay - 1, OneDay},
                          e \in Endpoints}

\* C7: for a fixed time, ceilings and endpoint, adding recorded calls to the history
\* never turns a false canMakeCall into a true one.
AdmissionMonotonic ==
    \A e \in Endpoints, c \in FurtherCalls :
        ~canMakeCall(apiCalls, now, e) => ~canMakeCall(Append(apiCalls, c), now, e)

\* a call was recorded while admission was already refused, and it is still refused
RecordedWhileRefused ==
    /\ ret.op = "recordCall"
    /\ ~canMakeCall(SubSeq(apiCalls, 1, Len(apiCalls) - 1), now, ret.endpoint)
    /\ ~canMakeCall(apiCalls, now, ret.endpoint)

\* the calls of endpoint e less than one minute old when wait ms have passed
\* and nothing has been recorded meanwhile
TrailingMinuteAfter(e, wait) ==
    {i \in DOMAIN apiCalls :
        apiCalls[i].endpoint = e /\ (now + wait) - apiCalls[i].timestamp < OneMinute}

\* C18: when getTimeToWait(endpoint) returns w > 0 at time t and no call is
\* recorded for the endpoint during the wait, then at time t + w the endpoint has
\* strictly fewer than maxCallsPerMinute calls in the trailing 60 seconds.
WaitMakesRoom ==
    (ret.op = "getTimeToWait" /\ ret.value > 0) =>
        Cardinality(TrailingMinuteAfter(ret.endpoint, ret.value)) < maxCallsPerMinute

\* the same with the minute ceiling exactly reached when getTimeToWait is called
WaitMakesRoomAtCeiling ==
    (/\ ret.op = "getTimeToWait"
     /\ ret.value > 0
     /\ Cardinality(Trailing(ret.endpoint, OneMinute)) = maxCallsPerMinute) =>
        Cardinality(TrailingMinuteAfter(ret.endpoint, ret.value)) < maxCallsPerMinute

\* the same for the wait of withRateLimit: a task that starts to wait finds room
\* when its timer is due, if nothing is recorded meanwhile
TaskWaitMakesRoom ==
    [][\A t \in Tasks :
          (tasks[t].pc # "waiting" /\ tasks'[t].pc = "waiting") =>
              Cardinality({i \in DOMAIN apiCalls' :
                              /\ apiCalls'[i].endpoint = tasks'[t].endpoint
                              /\ tasks'[t].wakeAt - apiCalls'[i].timestamp < OneMinute})
                  < maxCallsPerMinute]_vars

\* C19: the history is pruned on every read and every write: right after
\* canMakeCall, getTimeToWait, getLimitsInfo or recordCall has returned, it holds
\* no entry made 24 hours or more before the current time.
PrunedAfterEveryMethod ==
    ret.op \in {"canMakeCall", "getTimeToWait", "getLimitsInfo", "recordCall"} =>
        \A i \in DOMAIN apiCalls : now - apiCalls[i].timestamp < OneDay

\* the part of C19 about the three reading methods
PrunedAfterEveryRead ==
    ret.op \in {"canMakeCall", "getTimeToWait", "getLimitsInfo"} =>
        \A i \in DOMAIN apiCalls : now - apiCalls[i].timestamp < OneDay

\* recordCall(e1) is the step taken
Records(e1) ==
    /\ ret'.op = "recordCall" /\ ret'.endpoint = e1
    /\ Len(apiCalls') = Len(apiCalls) + 1

\* C28: the accounting is isolated per endpoint: recordCall(e1) never changes the
\* value of canMakeCall(e2), getTimeToWait(e2) or getLimitsInfo(e2) of an endpoint
\* e2 different from e1.
EndpointsIsolated ==
    [][\A e1 \in Endpoints :
          Records(e1) =>
              \A e2 \in Endpoints \ {e1} :
                  /\ canMakeCall(apiCalls', now', e2) = canMakeCall(apiCalls, now, e2)
                  /\ getTimeToWait(apiCalls', now', e2) = getTimeToWait(apiCalls, now, e2)
                  /\ getLimitsInfo(apiCalls', now', e2) = getLimitsInfo(apiCalls, now, e2)]_vars

\* a call of 'default' was recorded while 'groq' is at its minute ceiling, and
\* 'default' is not
RecordedBesideFullEndpoint ==
    /\ ret.op = "recordCall" /\ ret.endpoint = "default"
    /\ apiCalls # <<>> /\ apiCalls[Len(apiCalls)] = Call(now, "default")
    /\ getTimeToWait(apiCalls, now, "groq") > 0
    /\ canMakeCall(apiCalls, now, "default")

----------------------------------------------------------------------------
(* Properties of the request executor *)

\* C1: an invocation whose every attempt fails with HTTP 429 makes at most
\* numberOfRetries + 1 attempts.
RetriesBounded ==
    \A t \in Tasks : tasks[t].attempts <= numberOfRetries + 1

\* the calls of the same endpoint in the minute ending with call i
MinuteEndingAt(i) ==
    {j \in DOMAIN apiCalls :
        /\ apiCalls[j].endpoint = apiCalls[i].endpoint
        /\ apiCalls[j].timestamp <= apiCalls[i].timestamp
        /\ apiCalls[i].timestamp - apiCalls[j].timestamp < OneMinute}

\* C2: however concurrent invocations interleave, the calls recorded for an
\* endpoint within any trailing 60 seconds never exceed maxCallsPerMinute.
MinuteCeilingKept ==
    \A i \in DOMAIN apiCalls : Cardinality(MinuteEndingAt(i)) <= maxCallsPerMinute

\* C3: apiCall is never invoked while canMakeCall(endpoint) is false.
InvokedOnlyWhenAdmitted ==
    \A t \in Tasks : tasks[t].pc = "calling" => tasks[t].admitted

IsNonRetried(outcome) == outcome.name = "AxiosError" /\ outcome.status # 429

PropagatedError(outcome) ==
    IF outcome.status = 401 THEN NewError(InvalidKeyMessage)
    ELSE IF outcome.status = 0 THEN outcome
    ELSE NewError(ApiErrorMessage)

\* C8: a failure with HTTP 401, another non-2xx status other than 429, or a network
\* error is not retried and rejects the invocation at once: 401 with the invalid
\* API key error, other statuses with an API error, a network failure with the
\* original error.
OtherFailuresNotRetried ==
    \A t \in Tasks :
        IsNonRetried(tasks[t].lastOutcome) =>
            /\ tasks[t].pc = "rejected"
            /\ tasks[t].error = PropagatedError(tasks[t].lastOutcome)
            /\ tasks[t].attempts = tasks[t].throttled + 1

\* the first attempt failed with HTTP 401 and the invocation is rejected
RejectedOnFirst401 ==
    \E t \in Tasks :
        /\ tasks[t].lastOutcome.status = 401
        /\ tasks[t].pc = "rejected"
        /\ tasks[t].attempts = 1

IsBlank(key) == \A i \in DOMAIN key : key[i] \in Whitespace

\* C9: with a missing or whitespace-only credential, or an analysis kind without a
\* prompt, analyzeWithGroq rejects without invoking the request, without waiting
\* and without adding a history entry.
PreconditionFailuresIssueNothing ==
    \A t \in Tasks :
        (tasks[t].pc # "idle" /\ (IsBlank(tasks[t].apiKey)
                                  \/ tasks[t].analysisType \notin AnalysisTypes)) =>
            /\ tasks[t].pc = "rejected"
            /\ tasks[t].error \in {NewError(KeyRequiredMessage), NewError(UnsupportedMessage)}
            /\ tasks[t].attempts = 0
            /\ tasks[t].waits = 0
            /\ tasks[t].recorded = 0

\* an invocation with a whitespace-only credential was rejected
RejectedBlankCredential ==
    \E t \in Tasks :
        /\ tasks[t].pc = "rejected"
        /\ tasks[t].apiKey # <<>>
        /\ IsBlank(tasks[t].apiKey)
        /\ tasks[t].error = NewError(KeyRequiredMessage)

\* the entries added to the history since construction
AddedEntries == {i \in DOMAIN apiCalls : apiCalls[i].timestamp >= StartTime}

\* the invocations whose apiCall has resolved
Succeeded == {t \in Tasks : tasks[t].pc = "done"}

\* a step in which the apiCall of task t, awaited, settles
Settles(t) == tasks[t].pc = "calling" /\ tasks'[t].pc # "calling"

\* C20: withRateLimit never records a call speculatively: every entry it adds
\* to the history is appended when an issued apiCall resolves successfully, one
\* entry per successful result, and an invocation whose apiCall rejects, with
\* HTTP 429 or otherwise, adds no entry.
NeverRecordsSpeculatively ==
    /\ [](Cardinality(AddedEntries) = Cardinality(Succeeded))
    /\ [][/\ (Len(apiCalls') > Len(apiCalls)) =>
                  (\E t \in Tasks :
                      /\ Settles(t)
                      /\ tasks[t].attempts >= 1
                      /\ tasks'[t].pc = "done"
                      /\ tasks'[t].lastOutcome.name = "ok"
                      /\ apiCalls' = Append(apiCalls, Call(now, tasks[t].endpoint)))
          /\ \A u \in Tasks :
                  (Settles(u) /\ tasks'[u].lastOutcome.name # "ok") =>
                      /\ apiCalls' = apiCalls
                      /\ tasks'[u].pc \in {"backoff", "rejected"}]_vars

\* an invocation was throttled with 429 and its retry succeeded: one entry added
RecordedOnceAfterThrottle ==
    /\ \E t \in Tasks : /\ tasks[t].pc = "done"
                        /\ tasks[t].throttled >= 1
                        /\ tasks[t].attempts >= 2
    /\ Cardinality(AddedEntries) = 1

\* of two concurrent invocations one was throttled and then succeeded and the
\* other was rejected: one entry added
RecordedOnceOfTwo ==
    /\ RecordedOnceAfterThrottle
    /\ \E t \in Tasks : tasks[t].pc = "rejected" /\ tasks[t].attempts >= 1

\* the seconds a retry-after header gives, 5 when it is absent
SecondsGiven(header) == IF header = "2" THEN 2 ELSE 5

\* C21: after an attempt fails with HTTP 429 the next attempt is not issued
\* before the seconds of the retry-after header (5 without the header) have
\* passed, the same for every retry, and the retry is a full re-invocation: it
\* computes getTimeToWait again and waits for it before apiCall is called.
RetryWaitsThenReinvokes ==
    [][\A t \in Tasks :
          /\ (Settles(t) /\ tasks'[t].lastOutcome.status = 429) =>
                 /\ tasks'[t].pc = "backoff"
                 /\ tasks'[t].wakeAt = now + SecondsGiven(tasks'[t].lastOutcome.retryAfter) * 1000
          /\ (tasks[t].pc = "backoff" /\ tasks'[t].pc # "backoff") =>
                 /\ now >= tasks[t].wakeAt
                 /\ tasks'[t].attempts <= tasks[t].attempts + 1
                 /\ LET w == getTimeToWait(apiCalls, now, tasks[t].endpoint)
                    IN  \/ tasks'[t].pc = "rejected" /\ tasks'[t].error = NewError(MaxRetriesMessage)
                        \/ w > 0 /\ tasks'[t].pc = "waiting" /\ tasks'[t].wakeAt = now + w
                        \/ w = 0 /\ tasks'[t].pc = "calling"]_vars

\* a retry that found the minute ceiling reached and waits again before its call
RetryWaitsForRateLimit ==
    \E t \in Tasks :
        /\ tasks[t].pc = "waiting"
        /\ tasks[t].throttled >= 1
        /\ tasks[t].attempts >= 1
        /\ tasks[t].wakeAt > now

\* a second retry, again after the seconds of the header and no more
SecondRetryIssued ==
    \E t \in Tasks :
        /\ tasks[t].pc = "calling"
        /\ tasks[t].throttled >= 2
        /\ tasks[t].attempts >= 3

\* the awaited apiCall of invocation t rejects in this step with the code of a
\* rate limit
ThrowsRateLimitCode(t) ==
    /\ tasks[t].pc = "calling" /\ tasks'[t].pc # "calling"
    /\ tasks'[t].lastOutcome.code = "rate_limit_exceeded"

\* the errors withRateLimit may reject with: what apiCall threw, or the error of
\* the retry bound
OwnErrors(tk) == {tk.lastOutcome, groqApiCall(tk.lastOutcome), NewError(MaxRetriesMessage)}

\* C27: withRateLimit treats an error carrying the code 'rate_limit_exceeded'
\* exactly like an HTTP 429 response, whether or not the error has a response: it
\* waits the retry-after time (5 seconds by default) and retries the call, and it
\* never rejects with an error other than one produced by apiCall or 'Maximum
\* retries reached'.
RateLimitCodeRetried ==
    /\ [][\A t \in Tasks :
             ThrowsRateLimitCode(t) =>
                 /\ tasks'[t].pc = "backoff"
                 /\ tasks'[t].wakeAt =
                        now + SecondsGiven(tasks'[t].lastOutcome.retryAfter) * 1000]_vars
    /\ [](\A t \in Tasks :
             (tasks[t].pc = "rejected" /\ tasks[t].attempts >= 1) =>
                 tasks[t].error \in OwnErrors(tasks[t]))

\* the part of C27 that holds: an error with the code and a response is retried
\* after the seconds of its retry-after header
CodedResponseRetried ==
    [][\A t \in Tasks :
          (ThrowsRateLimitCode(t) /\ tasks'[t].lastOutcome.status # 0) =>
              /\ tasks'[t].pc = "backoff"
              /\ tasks'[t].wakeAt =
                     now + SecondsGiven(tasks'[t].lastOutcome.retryAfter) * 1000]_vars

\* an error with the code and no response ended the invocation with a TypeError
RejectedWithTypeError ==
    \E t \in Tasks :
        /\ tasks[t].pc = "rejected"
        /\ tasks[t].lastOutcome.code = "rate_limit_exceeded"
        /\ tasks[t].error = TypeError

----------------------------------------------------------------------------
(* Properties of the book cache store *)

NoDuplicates(s) == \A i, j \in DOMAIN s : i # j => s[i] # s[j]

\* C30: after any sequence of cacheBook, getCachedBook, removeBookFromCache and
\* clearAllCache operations recentBooks is a duplicate-free list of at most 50
\* book ids.
RecentBooksBounded ==
    /\ NoDuplicates(store.recentBooks)
    /\ Len(store.recentBooks) <= MaxRecentBooks

\* the part of C30 that holds: recentBooks never lists a book twice
RecentBooksDistinct == NoDuplicates(store.recentBooks)

\* a book that had left recentBooks but not cachedBooks was read again
FiftyOneRecentBooks ==
    /\ Len(store.recentBooks) = MaxRecentBooks + 1
    /\ store.recentBooks[1] = 1

\* cacheBook removed the least recently accessed books until the cache fitted
EvictedToFit ==
    /\ store.recentBooks # <<>>
    /\ Len(store.recentBooks) < MaxRecentBooks - 1
    /\ 1 \notin DOMAIN store.cachedBooks
    /\ MaxRecentBooks + 1 \in DOMAIN store.cachedBooks

====
